---------------------------- MODULE Spec2Model ----------------------------
(***************************************************************************)
(* Model of the h5_read table function of h5db (src/src/h5_read.cpp):      *)
(* the scan driver (GetNextDataRange, the position_done bookkeeping of     *)
(* H5ReadScan), the double-buffered chunk cache (TryRefreshCache,          *)
(* TryLoadChunks, ScanRegularColumn), the storage-lock discipline of       *)
(* Bind/Init/loader/direct reads, and the RSE materializer ScanRSEColumn.  *)
(*                                                                         *)
(* Three specifications share the module:                                  *)
(*   Spec / FairSpec  the parallel scan of one cached regular column       *)
(*   LockSpec         tasks running Bind, Init, cache loads, direct reads  *)
(*   RSESpec          ScanRSEColumn applied to bounded run tables          *)
(* Row counts, VECTOR_SIZE and chunk sizes are scaled down; rows are       *)
(* identified by their index, so "the bytes of row i" is the number i.     *)
(***************************************************************************)
EXTENDS Integers, Sequences, FiniteSets, TLC

\* ------------------------------------------------------------------ bounds
NumWorkers == 2
VECTOR_SIZE == 3
MaxRows == 7
MaxChunk == 3
MaxRSERows == 4
MaxRead == 3
MaxPlanRows == 3
MaxClaims == 2

Workers == 1..NumWorkers
Chunks == {0, 1}
Unset == 0 - 2
Garbage == 0 - 1

Min(a, b) == IF a < b THEN a ELSE b
Max(a, b) == IF a > b THEN a ELSE b

VARIABLES
    \* ---- scan: H5ReadBindData / H5ReadGlobalState
    num_rows,            \* bind_data.num_rows
    valid_row_ranges,    \* gstate.valid_row_ranges
    chunk_size,          \* Chunk::chunk_size of the cached column
    position,            \* gstate.position
    position_done,       \* gstate.position_done
    completed_ranges,    \* gstate.completed_ranges: set of <<start, end>>
    someone_is_fetching, \* gstate.someone_is_fetching
    end_row,             \* Chunk::end_row, per chunk
    cache,               \* Chunk::cache, per chunk: [base, rows] rows held
    \* ---- scan: per-worker control state (locals of the call stack)
    pc, slice, chunk1, end1, end2, max_end_row, cidx, next_pos, cpk, chunk_end, out,
    \* ---- scan: history (not program state)
    handed,              \* slices in the order GetNextDataRange returned them
    reported,            \* slices whose completion was reported
    \* ---- lock discipline: tasks calling into the HDF5 library
    hdf5_global_mutex,   \* owner of hdf5_global_mutex, 0 when free
    task_prog,           \* per task: the calls of the function it is running
    task_ip,             \* per task: index of the next call in task_prog
    in_library,          \* tasks that are inside an HDF5 call right now
    file_space,          \* start row selected on the cached file dataspace
    read_start,          \* per task: the start row its read asks for
    read_got,            \* per task: the start row its H5Dread transferred
    \* ---- RSE materializer
    rse_num_rows,        \* bind_data.num_rows
    run_starts,          \* RSEColumnState::run_starts
    rse_values,          \* RSEColumnState::values
    rse_last,            \* the last ScanRSEColumn call: worker, position, to_read, vector
    rse_prev,            \* the ScanRSEColumn call before it
    \* ---- query setup: Bind, filter pushdown, Init
    file_tables,         \* per RSE column: run_starts and values datasets in the file
    claimed_filters,     \* bind_data.claimed_filters
    init_fault,          \* the storage read of Init that returns a negative status
    column_states,       \* gstate.column_states: the run table loaded per RSE column
    init_status,         \* "none", "ok", or the exception H5ReadInit threw
    columns,             \* bind_data.columns: the kind of each column spec
    column_ids,          \* get.GetColumnIds(): scan column -> index in columns
    filters,             \* the host engine's filter list handed to the callback
    pushdown_calls,      \* how often the pushdown callback has run
    file_is_valid,       \* whether the file named by inputs[0] can be opened
    inputs,              \* input.inputs after the filename: the column arguments
    bind_status,         \* "none", "ok", or the exception H5ReadBind threw
    columns_to_scan,     \* gstate.columns_to_scan
    global_to_local,     \* gstate.global_to_local
    opened,              \* the bind columns whose datasets Init or Scan opened
    output,              \* output.data of the last H5ReadScan call, per vector
    ranges_a,            \* argument a of IntersectRowRanges
    ranges_b,            \* argument b of IntersectRowRanges
    intersections,       \* the IntersectRowRanges calls made, with their results
    error_handler,       \* the library's automatic error handler (H5E_DEFAULT)
    suppressors,         \* the live H5ErrorSuppressor objects, innermost last
    unwinding,           \* an exception is propagating through the scopes
    last_ended,          \* the H5ErrorSuppressor scope that ended last
    h5_handles,          \* every handle the library gave out, with its close calls
    owners,              \* the id each handle wrapper holds (-1: none)
    bind_at              \* where H5ReadBind stands

scanVars == <<num_rows, valid_row_ranges, chunk_size, position, position_done,
              completed_ranges, someone_is_fetching, end_row, cache,
              pc, slice, chunk1, end1, end2, max_end_row, cidx, next_pos, cpk,
              chunk_end, out, handed, reported>>

lockVars == <<hdf5_global_mutex, task_prog, task_ip, in_library, file_space,
              read_start, read_got>>

rseVars == <<rse_num_rows, run_starts, rse_values, rse_last, rse_prev>>

planVars == <<file_tables, claimed_filters, init_fault, column_states, init_status>>

claimVars == <<columns, column_ids, filters, pushdown_calls>>

bindVars == <<file_is_valid, inputs, bind_status>>

projVars == <<columns_to_scan, global_to_local, opened, output>>

isectVars == <<ranges_a, ranges_b, intersections>>

errVars == <<error_handler, suppressors, unwinding, last_ended>>

handleVars == <<h5_handles, owners, bind_at>>

raiiVars == <<errVars, handleVars>>

queryVars == <<planVars, claimVars, bindVars, projVars, isectVars, raiiVars>>

vars == <<scanVars, lockVars, rseVars, queryVars>>

\* ------------------------------------------------------- scan: pure helpers
\* struct RowRange {start_row, end_row}
RowRange(s, e) == [start_row |-> s, end_row |-> e]

\* All sorted lists of at most two non-empty, pairwise disjoint ranges inside
\* [0, n): the shape H5ReadInit produces when filters were claimed.
RangeLists(n) ==
    {<<>>}
    \cup {<<RowRange(a, b)>> : a \in 0..n, b \in 0..n}
    \cup {<<RowRange(a, b), RowRange(c, d)>> : a \in 0..n, b \in 0..n, c \in 0..n, d \in 0..n}

SortedDisjoint(rs) ==
    /\ \A i \in 1..Len(rs) : rs[i].start_row < rs[i].end_row
    /\ \A i \in 1..(Len(rs) - 1) : rs[i].end_row <= rs[i + 1].start_row

\* The first range that ends at or past pos (mutation).
FirstRangePastInclusive(ranges, pos) ==
    LET idx == {i \in 1..Len(ranges) : pos <= ranges[i].end_row}
    IN  IF idx = {} THEN 0 ELSE CHOOSE i \in idx : \A j \in idx : i <= j

\* The first range whose end_row lies past pos (0 when there is none).
FirstRangePast(ranges, pos) ==
    LET idx == {i \in 1..Len(ranges) : pos < ranges[i].end_row}
    IN  IF idx = {} THEN 0 ELSE CHOOSE i \in idx : \A j \in idx : i <= j

\* NextRangeFrom with the remains not clamped to the range (mutation).
NextRangeFromUnclamped(ranges, pos) ==
    LET i == FirstRangePast(ranges, pos)
    IN  IF i = 0
        THEN [has_data |-> FALSE, position |-> 0, to_read |-> 0, range |-> 0]
        ELSE [has_data |-> TRUE, position |-> pos, to_read |-> VECTOR_SIZE, range |-> i]

\* NextRangeFrom: start = position, remains = min(STANDARD_VECTOR_SIZE,
\* range.end_row - position) for the first range with position < end_row.
\* `range` records which range that was; the code does not return it.
NextRangeFrom(ranges, pos) ==
    LET i == FirstRangePast(ranges, pos)
    IN  IF i = 0
        THEN [has_data |-> FALSE, position |-> 0, to_read |-> 0, range |-> 0]
        ELSE [has_data |-> TRUE, position |-> pos,
              to_read |-> Min(VECTOR_SIZE, ranges[i].end_row - pos), range |-> i]

\* A merge loop that folds nothing (mutation).
MergeCompletedNoFold(done, parked) == [done |-> done, parked |-> parked]

\* The merge loop of H5ReadScan: fold parked completions that start at done.
RECURSIVE MergeCompleted(_, _)
MergeCompleted(done, parked) ==
    IF \E x \in parked : x[1] = done
    THEN LET x == CHOOSE y \in parked : y[1] = done
         IN  MergeCompleted(x[2], parked \ {x})
    ELSE [done |-> done, parked |-> parked]

\* The completion block storing scan_end whatever the order (mutation).
ReportCompletionOverwrite(done, parked, p, e) == [done |-> e, parked |-> parked]

\* The completion block advancing to the highest end seen (mutation).
ReportCompletionHighest(done, parked, p, e) == [done |-> Max(done, e), parked |-> parked]

\* The completion block of H5ReadScan, run under range_selection_mutex.
ReportCompletion(done, parked, p, e) ==
    IF p = done
    THEN MergeCompleted(e, parked)
    ELSE [done |-> done, parked |-> {x \in parked : x[1] # p} \cup {<<p, e>>}]

\* A loader that treats every chunk as finished (mutation).
ChunkIsFinishedAlways(cend, done) == TRUE

\* TryLoadChunks: "chunk.end_row <= position_done": the chunk is finished.
ChunkIsFinished(cend, done) == cend <= done

\* A gate that lets every caller through (mutation).
GateAlwaysWon(flag) == TRUE

\* compare_exchange_strong(expected = false, true) succeeds iff the flag is false.
GateWon(flag) == flag = FALSE

\* A coverage test that needs one row to spare (mutation).
SliceCoveredStrict(p, n, e1, e2) == p + n < e2

\* ScanRegularColumn: "position + to_read <= end2" after the swap.
SliceCovered(p, n, e1, e2) == p + n <= e2

\* chunk_start = chunk_end > chunk_size ? chunk_end - chunk_size : 0
ChunkStart(cend, cs) == IF cend > cs THEN cend - cs ELSE 0

\* What a chunk buffer holds at offset o: row base + o inside the part the last
\* read filled, anything else (earlier contents) beyond it.
BufAt(b, o) == IF o < b.rows THEN b.base + o ELSE Garbage

EmptyOut == [k \in 0..(VECTOR_SIZE - 1) |-> Unset]
NoSlice == [p |-> 0, n |-> 0, range |-> 0]

\* ------------------------------------------------------------ scan: Init
\* The states H5ReadInit can leave behind: without claimed filters the list is
\* [{0, num_rows}]; with claimed filters it is a sorted list of non-empty
\* disjoint ranges inside [0, num_rows).  chunk_size is the dataset's native
\* chunk dimension (any positive number) or the default, which is >= 2048.
SetupsFor(n) ==
    {[n |-> n, ranges |-> rs, cs |-> cs] :
        rs \in {<<RowRange(0, n)>>} \cup {l \in RangeLists(n) : SortedDisjoint(l)},
        cs \in 1..MaxChunk}

ScanSetups == UNION {SetupsFor(n) : n \in {0, MaxRows}}

\* H5ReadGlobalState(): position(0), position_done(0), end_row {0},
\* someone_is_fetching {false}; no worker has entered H5ReadScan.
ScanFresh ==
    /\ position = 0
    /\ position_done = 0
    /\ completed_ranges = {}
    /\ someone_is_fetching = FALSE
    /\ end_row = [c \in Chunks |-> 0]
    /\ cache = [c \in Chunks |-> [base |-> 0, rows |-> 0]]
    /\ pc = [w \in Workers |-> "idle"]
    /\ slice = [w \in Workers |-> NoSlice]
    /\ chunk1 = [w \in Workers |-> 0]
    /\ end1 = [w \in Workers |-> 0]
    /\ end2 = [w \in Workers |-> 0]
    /\ max_end_row = [w \in Workers |-> 0]
    /\ cidx = [w \in Workers |-> 0]
    /\ next_pos = [w \in Workers |-> 0]
    /\ cpk = [w \in Workers |-> 0]
    /\ chunk_end = [w \in Workers |-> 0]
    /\ out = [w \in Workers |-> EmptyOut]
    /\ handed = <<>>
    /\ reported = {}

\* No scan is set up (the state the other specifications keep the scan in).
NoScan ==
    /\ num_rows = 0
    /\ valid_row_ranges = <<>>
    /\ chunk_size = 0
    /\ ScanFresh

\* No task is calling into the library.
NoTasks ==
    /\ hdf5_global_mutex = 0
    /\ task_prog = [t \in Workers |-> <<>>]
    /\ task_ip = [t \in Workers |-> 0]
    /\ in_library = {}
    /\ file_space = 0
    /\ read_start = [t \in Workers |-> 0]
    /\ read_got = [t \in Workers |-> Unset]

NoCall == [w |-> 0, p |-> 0, n |-> 0, vec |-> [type |-> "NONE", data |-> <<>>]]

\* No RSE column is loaded.
NoRSE ==
    /\ rse_num_rows = 0
    /\ run_starts = <<>>
    /\ rse_values = <<>>
    /\ rse_last = NoCall
    /\ rse_prev = NoCall

NoFault == [col |-> 0, read |-> "none"]

\* No filter has been offered to the pushdown callback.
NoPushdown ==
    /\ columns = <<>>
    /\ column_ids = <<>>
    /\ filters = <<>>
    /\ pushdown_calls = 0

\* No Bind call is being followed.
NoBind ==
    /\ file_is_valid = FALSE
    /\ inputs = <<>>
    /\ bind_status = "none"

\* H5ReadInit has not been called and has no file to read.
NoInit ==
    /\ file_tables = <<>>
    /\ init_fault = NoFault
    /\ column_states = <<>>
    /\ init_status = "none"

\* No projection has been set up.
NoProjection ==
    /\ columns_to_scan = <<>>
    /\ global_to_local = <<>>
    /\ opened = {}
    /\ output = <<>>

\* No intersection is being computed on its own.
NoIntersection ==
    /\ ranges_a = <<>>
    /\ ranges_b = <<>>
    /\ intersections = <<>>

\* No error suppression scope is open.
NoSuppression ==
    /\ error_handler = "nullptr"
    /\ suppressors = <<>>
    /\ unwinding = FALSE
    /\ last_ended = [site |-> "none", installed |-> "nullptr", left_with |-> "nullptr",
                     by |-> "none"]

\* No handle was acquired.
NoHandles ==
    /\ h5_handles = <<>>
    /\ owners = <<>>
    /\ bind_at = [pc |-> "none", col |-> 0, part |-> 0, type_id |-> 0 - 1]

NoRAII == NoSuppression /\ NoHandles

\* No query is being set up.
NoQuery ==
    /\ NoInit
    /\ claimed_filters = <<>>
    /\ NoPushdown
    /\ NoBind
    /\ NoProjection
    /\ NoIntersection
    /\ NoRAII

ScanInit ==
    /\ \E s \in ScanSetups :
        /\ num_rows = s.n
        /\ valid_row_ranges = s.ranges
        /\ chunk_size = s.cs
    /\ ScanFresh
    /\ NoTasks
    /\ NoRSE
    /\ NoQuery

driverVars == <<position, position_done, completed_ranges, handed, reported>>
\* What no step of a scan changes: the setup, and the state of the lock, RSE
\* and query-setup specifications.
setupVars == <<num_rows, valid_row_ranges, chunk_size, lockVars, rseVars, queryVars>>
cacheVars == <<someone_is_fetching, end_row, cache>>
readerVars == <<chunk1, end1, end2, cpk, chunk_end, out>>
loaderVars == <<max_end_row, cidx, next_pos>>

\* ------------------------------------------------- scan: the scan driver
\* H5ReadScan entry: GetNextDataRange under range_selection_mutex.  With data
\* the worker enters ScanRegularColumn (chunk1 = &chunks[0], i = 0).
GetNextDataRange(w) ==
    /\ pc[w] = "idle"
    /\ LET range == NextRangeFrom(valid_row_ranges, position)
       IN  IF range.has_data
           THEN /\ position' = position + range.to_read
                /\ slice' = [slice EXCEPT ![w] =
                       [p |-> range.position, n |-> range.to_read, range |-> range.range]]
                /\ handed' = Append(handed,
                       [p |-> range.position, n |-> range.to_read, range |-> range.range])
                /\ chunk1' = [chunk1 EXCEPT ![w] = 0]
                /\ pc' = [pc EXCEPT ![w] = "load1"]
           ELSE /\ pc' = [pc EXCEPT ![w] = "done"]
                /\ UNCHANGED <<position, slice, handed, chunk1>>
    /\ UNCHANGED <<setupVars, position_done, completed_ranges, reported, cacheVars,
                   end1, end2, cpk, chunk_end, out, loaderVars>>

\* H5ReadScan exit: the position_done block under range_selection_mutex.
ReportDone(w) ==
    /\ pc[w] = "report"
    /\ LET r == ReportCompletion(position_done, completed_ranges,
                                 slice[w].p, slice[w].p + slice[w].n)
       IN  /\ position_done' = r.done
           /\ completed_ranges' = r.parked
    /\ reported' = reported \cup {slice[w].p}
    /\ slice' = [slice EXCEPT ![w] = NoSlice]
    /\ out' = [out EXCEPT ![w] = EmptyOut]
    /\ end1' = [end1 EXCEPT ![w] = 0]
    /\ end2' = [end2 EXCEPT ![w] = 0]
    /\ pc' = [pc EXCEPT ![w] = "idle"]
    /\ UNCHANGED <<setupVars, position, handed, cacheVars, chunk1, cpk, chunk_end,
                   loaderVars>>

\* ------------------------------------------ scan: the reader (cached path)
\* end1 = chunk1->end_row.load(acquire)
LoadEnd1(w) ==
    /\ pc[w] = "load1"
    /\ end1' = [end1 EXCEPT ![w] = end_row[chunk1[w]]]
    /\ pc' = [pc EXCEPT ![w] = "load2"]
    /\ UNCHANGED <<setupVars, driverVars, cacheVars, slice, chunk1, end2, cpk,
                   chunk_end, out, loaderVars>>

\* end2 = chunk2->end_row.load(acquire); swap if end1 > end2; coverage test.
LoadEnd2(w) ==
    /\ pc[w] = "load2"
    /\ LET e2 == end_row[1 - chunk1[w]]
           swap == end1[w] > e2
           lo == IF swap THEN e2 ELSE end1[w]
           hi == IF swap THEN end1[w] ELSE e2
       IN  /\ chunk1' = [chunk1 EXCEPT ![w] = IF swap THEN 1 - chunk1[w] ELSE chunk1[w]]
           /\ end1' = [end1 EXCEPT ![w] = lo]
           /\ end2' = [end2 EXCEPT ![w] = hi]
           /\ IF SliceCovered(slice[w].p, slice[w].n, lo, hi)
              THEN /\ pc' = [pc EXCEPT ![w] = "cp_load"]
                   /\ cpk' = [cpk EXCEPT ![w] = 1]
              ELSE /\ pc' = [pc EXCEPT ![w] = "chk_fetch"]
                   /\ cpk' = cpk
    /\ UNCHANGED <<setupVars, driverVars, cacheVars, slice, chunk_end, out, loaderVars>>

\* if (someone_is_fetching.load(acquire)) wait ... ; next iteration (i > 0)
CheckFetching(w) ==
    /\ pc[w] = "chk_fetch"
    /\ pc' = [pc EXCEPT ![w] = IF someone_is_fetching THEN "wait" ELSE "refresh"]
    /\ UNCHANGED <<setupVars, driverVars, cacheVars, slice, readerVars, loaderVars>>

\* chunk1->end_row.wait(end1): returns once the value differs from end1.
WaitEndRow(w) ==
    /\ pc[w] = "wait"
    /\ end_row[chunk1[w]] # end1[w]
    /\ pc' = [pc EXCEPT ![w] = "refresh"]
    /\ UNCHANGED <<setupVars, driverVars, cacheVars, slice, readerVars, loaderVars>>

\* The chunk the copy loop visits at step k: chunk1 first, then chunk2.
CopyChunk(w) == IF cpk[w] = 1 THEN chunk1[w] ELSE 1 - chunk1[w]

\* After the copy loop's step k: the next chunk, or the end of the column.
CopyAdvance(w) ==
    IF cpk[w] = 1
    THEN /\ cpk' = [cpk EXCEPT ![w] = 2]
         /\ pc' = [pc EXCEPT ![w] = "cp_load"]
    ELSE /\ cpk' = [cpk EXCEPT ![w] = 0]
         /\ pc' = [pc EXCEPT ![w] = "report"]

\* chunk_end = chunk->end_row.load(acquire) and the overlap test.
CopyLoadEnd(w) ==
    /\ pc[w] = "cp_load"
    /\ LET ce == end_row[CopyChunk(w)]
           cstart == ChunkStart(ce, chunk_size)
       IN  IF cstart < slice[w].p + slice[w].n /\ ce > slice[w].p
           THEN /\ chunk_end' = [chunk_end EXCEPT ![w] = ce]
                /\ pc' = [pc EXCEPT ![w] = "cp_copy"]
                /\ cpk' = cpk
           ELSE /\ chunk_end' = [chunk_end EXCEPT ![w] = 0]
                /\ CopyAdvance(w)
    /\ UNCHANGED <<setupVars, driverVars, cacheVars, slice, chunk1, end1, end2, out,
                   loaderVars>>

\* CopyFromTypedCache: memcpy of the overlap out of the chunk buffer.
CopyFromTypedCache(w) ==
    /\ pc[w] = "cp_copy"
    /\ LET c == CopyChunk(w)
           cstart == ChunkStart(chunk_end[w], chunk_size)
           overlap_start == Max(cstart, slice[w].p)
           overlap_end == Min(chunk_end[w], slice[w].p + slice[w].n)
           overlap_size == overlap_end - overlap_start
           chunk_offset == overlap_start - cstart
           result_offset == overlap_start - slice[w].p
       IN  out' = [out EXCEPT ![w] = [k \in 0..(VECTOR_SIZE - 1) |->
                      IF result_offset <= k /\ k < result_offset + overlap_size
                      THEN BufAt(cache[c], chunk_offset + (k - result_offset))
                      ELSE out[w][k]]]
    /\ chunk_end' = [chunk_end EXCEPT ![w] = 0]
    /\ CopyAdvance(w)
    /\ UNCHANGED <<setupVars, driverVars, cacheVars, slice, chunk1, end1, end2,
                   loaderVars>>

\* ------------------------------------------ scan: the loader (gate holder)
\* TryRefreshCache: compare_exchange_strong on someone_is_fetching; the winner
\* enters TryLoadChunks and computes max_end_row over both chunks.
TryRefreshCache(w) ==
    /\ pc[w] = "refresh"
    /\ IF GateWon(someone_is_fetching)
       THEN /\ someone_is_fetching' = TRUE
            /\ max_end_row' = [max_end_row EXCEPT ![w] = Max(end_row[0], end_row[1])]
            /\ cidx' = [cidx EXCEPT ![w] = 0]
            /\ pc' = [pc EXCEPT ![w] = "ld_check"]
       ELSE /\ pc' = [pc EXCEPT ![w] = "load1"]
            /\ UNCHANGED <<someone_is_fetching, max_end_row, cidx>>
    /\ UNCHANGED <<setupVars, driverVars, end_row, cache, slice, readerVars, next_pos>>

\* TryLoadChunks, one chunk of the second loop: the finished test and
\* NextRangeFrom(valid_row_ranges, max_end_row).
LoadCheck(w) ==
    /\ pc[w] = "ld_check"
    /\ cidx[w] \in Chunks
    /\ LET next_range == NextRangeFrom(valid_row_ranges, max_end_row[w])
       IN  IF ChunkIsFinished(end_row[cidx[w]], position_done) /\ next_range.has_data
           THEN /\ next_pos' = [next_pos EXCEPT ![w] = next_range.position]
                /\ pc' = [pc EXCEPT ![w] = "ld_read"]
                /\ cidx' = cidx
           ELSE /\ cidx' = [cidx EXCEPT ![w] = cidx[w] + 1]
                /\ UNCHANGED <<next_pos, pc>>
    /\ UNCHANGED <<setupVars, driverVars, cacheVars, slice, readerVars, max_end_row>>

\* ReadIntoTypedCache: rows [next_range.position, + rows_to_load) are read
\* into the chunk buffer at offset 0.
ReadIntoTypedCache(w) ==
    /\ pc[w] = "ld_read"
    /\ LET rows_to_load == Min(chunk_size, num_rows - next_pos[w])
       IN  cache' = [cache EXCEPT ![cidx[w]] = [base |-> next_pos[w], rows |-> rows_to_load]]
    /\ pc' = [pc EXCEPT ![w] = "ld_publish"]
    /\ UNCHANGED <<setupVars, driverVars, someone_is_fetching, end_row, slice,
                   readerVars, loaderVars>>

\* chunk.end_row.store(new_end, release); notify_all; max_end_row = new_end
PublishEndRow(w) ==
    /\ pc[w] = "ld_publish"
    /\ LET new_end == next_pos[w] + chunk_size
       IN  /\ end_row' = [end_row EXCEPT ![cidx[w]] = new_end]
           /\ max_end_row' = [max_end_row EXCEPT ![w] = new_end]
    /\ cidx' = [cidx EXCEPT ![w] = cidx[w] + 1]
    /\ next_pos' = [next_pos EXCEPT ![w] = 0]
    /\ pc' = [pc EXCEPT ![w] = "ld_check"]
    /\ UNCHANGED <<setupVars, driverVars, someone_is_fetching, cache, slice, readerVars>>

\* someone_is_fetching.store(false); notify_all; back to the reader loop.
ReleaseGate(w) ==
    /\ pc[w] = "ld_check"
    /\ cidx[w] \notin Chunks
    /\ someone_is_fetching' = FALSE
    /\ max_end_row' = [max_end_row EXCEPT ![w] = 0]
    /\ cidx' = [cidx EXCEPT ![w] = 0]
    /\ pc' = [pc EXCEPT ![w] = "load1"]
    /\ UNCHANGED <<setupVars, driverVars, end_row, cache, slice, readerVars, next_pos>>

\* One step of worker w.
WorkerStep(w) ==
    \/ GetNextDataRange(w)
    \/ LoadEnd1(w)
    \/ LoadEnd2(w)
    \/ CheckFetching(w)
    \/ WaitEndRow(w)
    \/ TryRefreshCache(w)
    \/ LoadCheck(w)
    \/ ReadIntoTypedCache(w)
    \/ PublishEndRow(w)
    \/ ReleaseGate(w)
    \/ CopyLoadEnd(w)
    \/ CopyFromTypedCache(w)
    \/ ReportDone(w)

Next == \E w \in Workers : WorkerStep(w)

Spec == ScanInit /\ [][Next]_vars

\* Every worker thread keeps being scheduled while it can take a step.
FairSpec == Spec /\ \A w \in Workers : WF_vars(WorkerStep(w))

\* ------------------------------------------- scan: a failing storage read
\* ReadIntoTypedCache: H5Dread returns status < 0 and IOException is thrown.
\* Nothing between the throw and the caller of H5ReadScan catches it, so the
\* task leaves the scan from inside TryRefreshCache.
ReadFails(w) ==
    /\ pc[w] = "ld_read"
    /\ pc' = [pc EXCEPT ![w] = "failed"]
    /\ UNCHANGED <<setupVars, driverVars, cacheVars, slice, readerVars, loaderVars>>

FaultNext == Next \/ \E w \in Workers : ReadFails(w)

FaultSpec == ScanInit /\ [][FaultNext]_vars

\* ------------------------------------------------ scan: one worker alone
\* The steps of worker 1 when no other task scans; it never finds the gate
\* taken, so the wait on end_row is never entered.
SingleWorkerStep ==
    \/ GetNextDataRange(1)
    \/ LoadEnd1(1)
    \/ LoadEnd2(1)
    \/ CheckFetching(1)
    \/ TryRefreshCache(1)
    \/ LoadCheck(1)
    \/ ReadIntoTypedCache(1)
    \/ PublishEndRow(1)
    \/ ReleaseGate(1)
    \/ CopyLoadEnd(1)
    \/ CopyFromTypedCache(1)
    \/ ReportDone(1)

SingleSpec == ScanInit /\ [][SingleWorkerStep]_vars

SingleFairSpec == SingleSpec /\ WF_vars(SingleWorkerStep)

\* ================================================== lock discipline (LockSpec)
\* Each function is the list, in execution order, of the points where it takes
\* or releases hdf5_global_mutex (the lock_guard's constructor and destructor)
\* and of its calls into the HDF5 library, destructors of the RAII handles
\* included.  The H5Eget_auto2/H5Eset_auto2 pairs of H5ErrorSuppressor sit
\* directly around the open calls they guard and are not listed.

\* H5ReadBind.  `result` is declared before the lock_guard and `file` after
\* it, so an exception destroys file, then the lock_guard, then result.
\*   success: h5_read(f, '/a') with /a a regular dataset
\*   failure: h5_read(f, '/a', '/b') where /b cannot be opened; column /a is
\*            already in result->columns and owns an H5TypeHandle
H5ReadBind(fails) ==
    LET column == <<"H5Dopen2", "H5Dget_type", "H5Tcopy", "H5Tget_class", "H5Dget_space",
                    "H5Sget_simple_extent_ndims", "H5Sget_simple_extent_dims",
                    "H5Tget_size", "H5Sclose", "H5Dclose">>
    IN  IF fails
        THEN <<"lock", "H5Fopen">> \o column \o <<"H5Dopen2", "H5Fclose", "unlock", "H5Tclose">>
        ELSE <<"lock", "H5Fopen">> \o column \o <<"H5Fclose", "unlock">>

\* H5ReadInit.  `result` (the global state that owns the file handle and the
\* column states) is declared before the lock_guard.
\*   success: one cacheable regular column
\*   failure: one RSE column whose run_starts fails validation after the read
H5ReadInit(fails) ==
    IF fails
    THEN <<"lock", "H5Fopen", "H5Dopen2", "H5Dopen2", "H5Dget_space",
           "H5Sget_simple_extent_npoints", "H5Dget_space", "H5Sget_simple_extent_npoints",
           "H5Tget_class", "H5Dread(H5S_ALL)", "H5Sclose", "H5Sclose", "H5Dclose",
           "H5Dclose", "unlock", "H5Fclose">>
    ELSE <<"lock", "H5Fopen", "H5Dopen2", "H5Dget_space", "H5Dget_create_plist",
           "H5Pget_layout", "H5Pget_chunk", "H5Pclose", "unlock">>

\* ReadIntoTypedCache (the cache loader's read).
ReadIntoTypedCacheCalls ==
    <<"lock", "H5Sselect_hyperslab", "H5Screate_simple", "H5Dread", "H5Sclose", "unlock">>

\* ScanRegularColumn, non-cached path (1D numeric read).
ScanRegularColumnDirect ==
    <<"lock", "H5Screate_simple", "H5Sselect_hyperslab", "H5Dread", "H5Sclose", "unlock">>

ReadPrograms == {ReadIntoTypedCacheCalls, ScanRegularColumnDirect}
TaskPrograms == {H5ReadBind(f) : f \in BOOLEAN} \cup {H5ReadInit(f) : f \in BOOLEAN}
                \cup ReadPrograms

\* Start rows a read may ask for (position of a slice or of a chunk).
ReadStarts == 0..1

CurrentCall(t) ==
    IF task_ip[t] \in 1..Len(task_prog[t]) THEN task_prog[t][task_ip[t]] ELSE "none"

IsLibraryCall(c) == c \notin {"lock", "unlock", "none"}

\* A thread enters one of the four functions.
StartTask(t) ==
    /\ task_prog[t] = <<>>
    /\ \E prog \in TaskPrograms : \E r \in ReadStarts :
        /\ prog \notin ReadPrograms => r = 0
        /\ task_prog' = [task_prog EXCEPT ![t] = prog]
        /\ read_start' = [read_start EXCEPT ![t] = r]
    /\ task_ip' = [task_ip EXCEPT ![t] = 1]
    /\ read_got' = [read_got EXCEPT ![t] = Unset]
    /\ UNCHANGED <<hdf5_global_mutex, in_library, file_space, scanVars, rseVars, queryVars>>

\* std::lock_guard lock(hdf5_global_mutex): blocks until the mutex is free.
\* None of the four functions takes the mutex while holding it.
LockGuard(t) ==
    /\ CurrentCall(t) = "lock"
    /\ hdf5_global_mutex = 0
    /\ hdf5_global_mutex' = t
    /\ task_ip' = [task_ip EXCEPT ![t] = task_ip[t] + 1]
    /\ UNCHANGED <<task_prog, in_library, file_space, read_start, read_got, scanVars, rseVars, queryVars>>

\* ~lock_guard at scope exit or during unwinding.
UnlockGuard(t) ==
    /\ CurrentCall(t) = "unlock"
    /\ hdf5_global_mutex' = 0
    /\ task_ip' = [task_ip EXCEPT ![t] = task_ip[t] + 1]
    /\ UNCHANGED <<task_prog, in_library, file_space, read_start, read_got, scanVars, rseVars, queryVars>>

\* The thread enters an HDF5 call.
LibraryEnter(t) ==
    /\ IsLibraryCall(CurrentCall(t))
    /\ t \notin in_library
    /\ in_library' = in_library \cup {t}
    /\ UNCHANGED <<hdf5_global_mutex, task_prog, task_ip, file_space, read_start, read_got,
                   scanVars, rseVars, queryVars>>

\* The HDF5 call returns.  H5Sselect_hyperslab sets the selection of the shared
\* file dataspace; H5Dread transfers the rows that dataspace selects.
LibraryReturn(t) ==
    /\ t \in in_library
    /\ in_library' = in_library \ {t}
    /\ task_ip' = [task_ip EXCEPT ![t] = task_ip[t] + 1]
    /\ file_space' = IF CurrentCall(t) = "H5Sselect_hyperslab" THEN read_start[t]
                     ELSE file_space
    /\ read_got' = IF CurrentCall(t) = "H5Dread"
                   THEN [read_got EXCEPT ![t] = file_space]
                   ELSE read_got
    /\ UNCHANGED <<hdf5_global_mutex, task_prog, read_start, scanVars, rseVars, queryVars>>

\* The function returns (or its exception has left it).
TaskReturn(t) ==
    /\ task_prog[t] # <<>>
    /\ task_ip[t] > Len(task_prog[t])
    /\ task_prog' = [task_prog EXCEPT ![t] = <<>>]
    /\ task_ip' = [task_ip EXCEPT ![t] = 0]
    /\ UNCHANGED <<hdf5_global_mutex, in_library, file_space, read_start, read_got,
                   scanVars, rseVars, queryVars>>

TaskStep(t) ==
    \/ StartTask(t)
    \/ LockGuard(t)
    \/ UnlockGuard(t)
    \/ LibraryEnter(t)
    \/ LibraryReturn(t)
    \/ TaskReturn(t)

LockNext == \E t \in Workers : TaskStep(t)

LockInit == NoScan /\ NoTasks /\ NoRSE /\ NoQuery

LockSpec == LockInit /\ [][LockNext]_vars

\* ====================================================== RSE columns (RSESpec)
RSEValues == {10, 11}

SeqsUpTo(S, k) == UNION {[1..m -> S] : m \in 0..k}

\* The checks without the one on the last run start (mutation).
RSEValidatedNoBound(starts, vals, n) ==
    /\ Len(starts) = Len(vals)
    /\ Len(starts) > 0 => starts[1] = 0
    /\ \A i \in 2..Len(starts) : starts[i] > starts[i - 1]

\* H5ReadInit's checks on a loaded run table: same number of run_starts and
\* values, run_starts[0] = 0, strictly increasing, back() < num_rows.
RSEValidated(starts, vals, n) ==
    /\ Len(starts) = Len(vals)
    /\ Len(starts) > 0 => starts[1] = 0
    /\ \A i \in 2..Len(starts) : starts[i] > starts[i - 1]
    /\ Len(starts) > 0 => starts[Len(starts)] < n

\* The run tables with at least one run that H5ReadInit accepts for n rows.
RSETables(n) ==
    {tb \in [starts : SeqsUpTo(0..n, n), vals : SeqsUpTo(RSEValues, n)] :
        /\ RSEValidated(tb.starts, tb.vals, n)
        /\ Len(tb.starts) >= 1}

\* std::upper_bound over the sorted run_starts: offset of the first element
\* greater than pos, which is the number of elements <= pos.
UpperBound(starts, pos) == Cardinality({i \in 1..Len(starts) : starts[i] <= pos})

\* A run that is taken to extend to the end of the column (mutation).
NextRunStartLast(starts, run, n) == n

\* (current_run + 1 < run_starts.size()) ? run_starts[current_run + 1] : num_rows
\* with current_run counted from 0 as in the code.
NextRunStart(starts, run, n) == IF run + 1 < Len(starts) THEN starts[run + 2] ELSE n

\* The batched fill loop of ScanRSEColumn: data holds result_data[0..i).
RECURSIVE FillRuns(_, _, _, _, _, _, _, _)
FillRuns(starts, vals, n, pos, to_read, i, current_run, data) ==
    IF i < to_read
    THEN LET current_row == pos + i
             rows_in_current_run == NextRunStart(starts, current_run, n) - current_row
             rows_to_fill == Min(rows_in_current_run, to_read - i)
             filled == data \o [j \in 1..rows_to_fill |-> vals[current_run + 1]]
         IN  FillRuns(starts, vals, n, pos, to_read, i + rows_to_fill,
                      IF i + rows_to_fill < to_read THEN current_run + 1 ELSE current_run,
                      filled)
    ELSE data

\* ScanRSEColumn: the vector written for the slice [pos, pos + to_read).
ScanRSEColumn(starts, vals, n, pos, to_read) ==
    LET current_run == UpperBound(starts, pos) - 1
        rows_in_current_run == NextRunStart(starts, current_run, n) - pos
    IN  IF rows_in_current_run >= to_read
        THEN [type |-> "CONSTANT_VECTOR", data |-> <<vals[current_run + 1]>>]
        ELSE [type |-> "FLAT_VECTOR",
              data |-> FillRuns(starts, vals, n, pos, to_read, 0, current_run, <<>>)]

\* Row k of a vector as the engine reads it: a constant vector repeats its
\* single element.
VectorRow(vec, k) == IF vec.type = "CONSTANT_VECTOR" THEN vec.data[1] ELSE vec.data[k + 1]

RSEInit ==
    /\ NoScan
    /\ NoTasks
    /\ NoQuery
    /\ \E n \in 1..MaxRSERows : \E tb \in RSETables(n) :
        /\ rse_num_rows = n
        /\ run_starts = tb.starts
        /\ rse_values = tb.vals
    /\ rse_last = NoCall
    /\ rse_prev = NoCall

\* Worker w materializes the RSE column for a slice inside [0, num_rows).
RSEScan(w) ==
    /\ \E pos \in 0..(rse_num_rows - 1) : \E to_read \in 1..MaxRead :
        /\ pos + to_read <= rse_num_rows
        /\ rse_last' = [w |-> w, p |-> pos, n |-> to_read,
                        vec |-> ScanRSEColumn(run_starts, rse_values, rse_num_rows,
                                              pos, to_read)]
    /\ rse_prev' = rse_last
    /\ UNCHANGED <<rse_num_rows, run_starts, rse_values, scanVars, lockVars, queryVars>>

RSENext == \E w \in Workers : RSEScan(w)

RSESpec == RSEInit /\ [][RSENext]_vars

\* ============================================== Init: run tables and planner
\* (PlanSpec).  The table has a regular column 0, which gives num_rows, and
\* the RSE columns 1 and 2 with numeric values; every column is scanned.
PlanColumns == 1..2

Comparisons == {"COMPARE_EQUAL", "COMPARE_GREATERTHAN", "COMPARE_GREATERTHANOREQUALTO",
                "COMPARE_LESSTHAN", "COMPARE_LESSTHANOREQUALTO"}

\* EvaluateComparison: the switch over the comparison type, default false.
EvaluateComparison(value, comparison, filter_val) ==
    CASE comparison = "COMPARE_EQUAL" -> value = filter_val
      [] comparison = "COMPARE_GREATERTHAN" -> value > filter_val
      [] comparison = "COMPARE_GREATERTHANOREQUALTO" -> value >= filter_val
      [] comparison = "COMPARE_LESSTHAN" -> value < filter_val
      [] comparison = "COMPARE_LESSTHANOREQUALTO" -> value <= filter_val
      [] OTHER -> FALSE

\* filters_by_column[col]: the claimed filters on one column, in claim order.
FiltersByColumn(claims, col) == SelectSeq(claims, LAMBDA f : f.column_index = col)

\* The inner loop over typed_filters: the run's value satisfies all of them.
SatisfiesAll(value, col_filters) ==
    \A k \in 1..Len(col_filters) :
        EvaluateComparison(value, col_filters[k].comparison, col_filters[k].constant)

\* A run loop that closes a range at the end of every satisfying run
\* (mutation).
RECURSIVE RunLoopPerRun(_, _, _, _, _, _, _, _)
RunLoopPerRun(starts, vals, col_filters, n, i, current_start, in_range, col_result) ==
    IF i > Len(vals)
    THEN col_result
    ELSE RunLoopPerRun(starts, vals, col_filters, n, i + 1, current_start, in_range,
             IF SatisfiesAll(vals[i], col_filters)
             THEN Append(col_result,
                         RowRange(starts[i], IF i < Len(vals) THEN starts[i + 1] ELSE n))
             ELSE col_result)

\* The loop over the runs of one column that builds col_result.
RECURSIVE RunLoop(_, _, _, _, _, _, _, _)
RunLoop(starts, vals, col_filters, n, i, current_start, in_range, col_result) ==
    IF i > Len(vals)
    THEN IF in_range THEN Append(col_result, RowRange(current_start, n)) ELSE col_result
    ELSE LET satisfies_all == SatisfiesAll(vals[i], col_filters)
         IN  IF satisfies_all /\ ~in_range
             THEN RunLoop(starts, vals, col_filters, n, i + 1, starts[i], TRUE, col_result)
             ELSE IF ~satisfies_all /\ in_range
             THEN RunLoop(starts, vals, col_filters, n, i + 1, current_start, FALSE,
                          Append(col_result, RowRange(current_start, starts[i])))
             ELSE RunLoop(starts, vals, col_filters, n, i + 1, current_start, in_range,
                          col_result)

\* col_ranges of one filtered column.
ColumnRanges(state, col_filters, n) ==
    RunLoop(state.run_starts, state.values, col_filters, n, 1, 0, FALSE, <<>>)

\* An intersection that keeps ranges with start >= end (mutation).
RECURSIVE IntersectFromKeepEmpty(_, _, _, _, _)
IntersectFromKeepEmpty(a, b, i, j, result) ==
    IF i <= Len(a) /\ j <= Len(b)
    THEN LET start == Max(a[i].start_row, b[j].start_row)
             end == Min(a[i].end_row, b[j].end_row)
             added == Append(result, RowRange(start, end))
         IN  IF a[i].end_row < b[j].end_row
             THEN IntersectFromKeepEmpty(a, b, i + 1, j, added)
             ELSE IntersectFromKeepEmpty(a, b, i, j + 1, added)
    ELSE result

\* An intersection that advances both lists at once (mutation).
RECURSIVE IntersectFromBoth(_, _, _, _, _)
IntersectFromBoth(a, b, i, j, result) ==
    IF i <= Len(a) /\ j <= Len(b)
    THEN LET start == Max(a[i].start_row, b[j].start_row)
             end == Min(a[i].end_row, b[j].end_row)
             added == IF start < end THEN Append(result, RowRange(start, end)) ELSE result
         IN  IntersectFromBoth(a, b, i + 1, j + 1, added)
    ELSE result

\* The while loop of IntersectRowRanges (i and j counted from 1).
RECURSIVE IntersectFrom(_, _, _, _, _)
IntersectFrom(a, b, i, j, result) ==
    IF i <= Len(a) /\ j <= Len(b)
    THEN LET start == Max(a[i].start_row, b[j].start_row)
             end == Min(a[i].end_row, b[j].end_row)
             added == IF start < end THEN Append(result, RowRange(start, end)) ELSE result
         IN  IF a[i].end_row < b[j].end_row
             THEN IntersectFrom(a, b, i + 1, j, added)
             ELSE IntersectFrom(a, b, i, j + 1, added)
    ELSE result

IntersectRowRanges(a, b) == IntersectFrom(a, b, 1, 1, <<>>)

\* The columns that have a claimed filter, and the orders in which the
\* unordered_map filters_by_column may be iterated.
FilteredColumns(claims) == {claims[k].column_index : k \in 1..Len(claims)}

IterationOrders(S) ==
    {order \in [1..Cardinality(S) -> S] :
        \A x \in 1..Cardinality(S) : \A y \in 1..Cardinality(S) :
            order[x] = order[y] => x = y}

\* The loop over filters_by_column: intersect each column's ranges into ranges.
RECURSIVE IntersectColumns(_, _, _, _, _, _)
IntersectColumns(order, k, claims, states, n, ranges) ==
    IF k > Len(order)
    THEN ranges
    ELSE IntersectColumns(order, k + 1, claims, states, n,
             IntersectRowRanges(ranges,
                 ColumnRanges(states[order[k]], FiltersByColumn(claims, order[k]), n)))

\* The row range computation of H5ReadInit.
ComputeRowRanges(order, claims, states, n) ==
    IF claims # <<>>
    THEN IntersectColumns(order, 1, claims, states, n, <<RowRange(0, n)>>)
    ELSE <<RowRange(0, n)>>

\* What the file holds for one RSE column: the run_starts dataset with its
\* type class, and the values dataset.
FileTables(n) ==
    [starts : SeqsUpTo(0..n, n), vals : SeqsUpTo(RSEValues, n),
     starts_class : {"H5T_INTEGER", "H5T_FLOAT"}]

\* The RSE branch of H5ReadInit for one column: size check, class check,
\* read of run_starts (status checked), validation, read of the numeric
\* values into a value-initialized vector (status not looked at).
LoadRSEColumn(tb, n, fault) ==
    IF Len(tb.starts) # Len(tb.vals) THEN [status |-> "IOException"]
    ELSE IF tb.starts_class # "H5T_INTEGER" THEN [status |-> "IOException"]
    ELSE IF fault = "run_starts" THEN [status |-> "IOException"]
    ELSE IF ~RSEValidated(tb.starts, tb.vals, n) THEN [status |-> "IOException"]
    ELSE [status |-> "ok",
          state |-> [run_starts |-> tb.starts,
                     values |-> IF fault = "values"
                                THEN [k \in 1..Len(tb.vals) |-> 0]
                                ELSE tb.vals]]

\* The column loop of H5ReadInit over the RSE columns, in scan order.
LoadColumns(tables, n, fault) ==
    [c \in 1..Len(tables) |->
        LoadRSEColumn(tables[c], n, IF fault.col = c THEN fault.read ELSE "none")]

PlanFilters == [column_index : PlanColumns, comparison : Comparisons, constant : RSEValues]

InitFaults == [col : PlanColumns, read : {"run_starts", "values"}]

\* A table every bound accepts, used for the column that is not varied.
PlainTable(n) ==
    IF n = 0
    THEN [starts |-> <<>>, vals |-> <<>>, starts_class |-> "H5T_INTEGER"]
    ELSE [starts |-> <<0>>, vals |-> <<10>>, starts_class |-> "H5T_INTEGER"]

AcceptedTables(n) ==
    {tb \in FileTables(n) :
        tb.starts_class = "H5T_INTEGER" /\ RSEValidated(tb.starts, tb.vals, n)}

\* The file, the claims and the failing read of a query on n rows are one of:
\*   any file table in one column, no claims, no failing read;
\*   accepted tables in both columns with up to MaxClaims claimed filters;
\*   accepted tables, at most one claim, one read returning a negative status.
PlanInputs(n) ==
    \/ \E tb \in FileTables(n) :
        /\ file_tables \in {<<tb, PlainTable(n)>>, <<PlainTable(n), tb>>}
        /\ claimed_filters = <<>>
        /\ init_fault = NoFault
    \/ \E t1 \in AcceptedTables(n) : \E t2 \in AcceptedTables(n) :
        /\ file_tables = <<t1, t2>>
        /\ \/ /\ claimed_filters \in SeqsUpTo(PlanFilters, MaxClaims)
              /\ init_fault = NoFault
           \/ /\ claimed_filters \in SeqsUpTo(PlanFilters, 1)
              /\ init_fault \in InitFaults

PlanInit ==
    /\ \E n \in 0..MaxPlanRows :
        /\ num_rows = n
        /\ PlanInputs(n)
    /\ valid_row_ranges = <<>>
    /\ chunk_size = VECTOR_SIZE
    /\ column_states = <<>>
    /\ init_status = "none"
    /\ NoPushdown
    /\ NoBind
    /\ NoProjection
    /\ NoIntersection
    /\ NoRAII
    /\ ScanFresh
    /\ NoTasks
    /\ NoRSE

\* H5ReadInit: load every RSE column, then compute valid_row_ranges.  The
\* first column that fails throws, and the half-built global state is dropped.
H5ReadInitPlan ==
    /\ init_status = "none"
    /\ LET loaded == LoadColumns(file_tables, num_rows, init_fault)
       IN  IF \E c \in 1..Len(loaded) : loaded[c].status # "ok"
           THEN /\ init_status' = "IOException"
                /\ UNCHANGED <<column_states, valid_row_ranges>>
           ELSE /\ init_status' = "ok"
                /\ column_states' = [c \in 1..Len(loaded) |-> loaded[c].state]
                /\ \E order \in IterationOrders(FilteredColumns(claimed_filters)) :
                    valid_row_ranges' =
                        ComputeRowRanges(order, claimed_filters, column_states', num_rows)
    /\ UNCHANGED <<num_rows, chunk_size, file_tables, claimed_filters, init_fault,
                   position, position_done, completed_ranges, handed, reported,
                   cacheVars, pc, slice, readerVars, loaderVars, lockVars, rseVars,
                   claimVars, bindVars, projVars, isectVars, raiiVars>>

\* The first H5ReadScan call after a successful Init.
FirstScan ==
    /\ init_status = "ok"
    /\ handed = <<>>
    /\ \E w \in Workers : GetNextDataRange(w)

PlanNext == H5ReadInitPlan \/ FirstScan

PlanSpec == PlanInit /\ [][PlanNext]_vars

\* ============================================ predicate claimer (ClaimSpec)
\* The pushdown callback is offered the host engine's filter expressions and
\* appends the comparisons on RSE columns it can use to claimed_filters.
MaxPushdownCalls == 2

\* get.table_index: the table index of this scan in the query plan.
table_index == 1
\* The table index of another table of the same query.
other_table == 2

\* Every ExpressionType a BoundComparisonExpression of the inputs carries.
ComparisonTypes == Comparisons \cup {"COMPARE_NOTEQUAL", "COMPARE_NOT_DISTINCT_FROM"}

ColumnRef(t, c) ==
    [expression_class |-> "BOUND_COLUMN_REF", table_index |-> t, column_index |-> c]

Constant(v) == [expression_class |-> "BOUND_CONSTANT", value |-> v]

ComparisonExpr(type, left, right) ==
    [expression_class |-> "BOUND_COMPARISON", type |-> type, left |-> left, right |-> right]

BetweenExpr(input, lower, upper, lower_inclusive, upper_inclusive) ==
    [expression_class |-> "BOUND_BETWEEN", input |-> input, lower |-> lower,
     upper |-> upper, lower_inclusive |-> lower_inclusive,
     upper_inclusive |-> upper_inclusive]

ConjunctionExpr(type, children) ==
    [expression_class |-> "BOUND_CONJUNCTION", type |-> type, children |-> children]

NotExpr(child) ==
    [expression_class |-> "BOUND_OPERATOR", type |-> "OPERATOR_NOT", children |-> <<child>>]

FlipComparisonNone(type) == type

FlipComparison(type) ==
    CASE type = "COMPARE_LESSTHAN" -> "COMPARE_GREATERTHAN"
      [] type = "COMPARE_LESSTHANOREQUALTO" -> "COMPARE_GREATERTHANOREQUALTO"
      [] type = "COMPARE_GREATERTHAN" -> "COMPARE_LESSTHAN"
      [] type = "COMPARE_GREATERTHANOREQUALTO" -> "COMPARE_LESSTHANOREQUALTO"
      [] OTHER -> type

ClaimedFilter(column_index, comparison, constant) ==
    [column_index |-> column_index, comparison |-> comparison, constant |-> constant]

\* What one TryClaimRSEFilter call returns and what it pushed onto claimed.
Unclaimed == [ret |-> FALSE, claimed |-> <<>>]

\* The column reference is to this scan and maps to an RSE column.
IsRSEColumnRef(colref, get_to_bind_map, rse_columns) ==
    /\ colref.table_index = table_index
    /\ colref.column_index \in DOMAIN get_to_bind_map
    /\ get_to_bind_map[colref.column_index] \in rse_columns

\* The BOUND_COMPARISON branch.
ClaimComparison(comp, get_to_bind_map, rse_columns) ==
    LET col_const == /\ comp.left.expression_class = "BOUND_COLUMN_REF"
                     /\ comp.right.expression_class = "BOUND_CONSTANT"
        const_col == /\ comp.left.expression_class = "BOUND_CONSTANT"
                     /\ comp.right.expression_class = "BOUND_COLUMN_REF"
        colref == IF col_const THEN comp.left ELSE comp.right
        constant == IF col_const THEN comp.right ELSE comp.left
        need_flip == const_col
        comparison == IF need_flip THEN FlipComparison(comp.type) ELSE comp.type
    IN  IF /\ col_const \/ const_col
           /\ IsRSEColumnRef(colref, get_to_bind_map, rse_columns)
           /\ comparison \in Comparisons
        THEN [ret |-> TRUE,
              claimed |-> <<ClaimedFilter(get_to_bind_map[colref.column_index],
                                          comparison, constant.value)>>]
        ELSE Unclaimed

BetweenFiltersStrict(bind_data_col_idx, lower, upper) ==
    <<ClaimedFilter(bind_data_col_idx, "COMPARE_GREATERTHAN", lower),
      ClaimedFilter(bind_data_col_idx, "COMPARE_LESSTHAN", upper)>>

\* lower_filter and upper_filter of a claimed BETWEEN.
BetweenFilters(bind_data_col_idx, lower, upper) ==
    <<ClaimedFilter(bind_data_col_idx, "COMPARE_GREATERTHANOREQUALTO", lower),
      ClaimedFilter(bind_data_col_idx, "COMPARE_LESSTHANOREQUALTO", upper)>>

\* The BOUND_BETWEEN branch.
ClaimBetween(between, get_to_bind_map, rse_columns) ==
    IF /\ between.input.expression_class = "BOUND_COLUMN_REF"
       /\ between.lower.expression_class = "BOUND_CONSTANT"
       /\ between.upper.expression_class = "BOUND_CONSTANT"
       /\ IsRSEColumnRef(between.input, get_to_bind_map, rse_columns)
    THEN [ret |-> TRUE,
          claimed |-> BetweenFilters(get_to_bind_map[between.input.column_index],
                                     between.lower.value, between.upper.value)]
    ELSE Unclaimed

ClaimedBoth(claimed_left, claimed_right) == claimed_left /\ claimed_right

\* The test that decides whether temp_claimed is appended.
ClaimedAny(claimed_left, claimed_right) == claimed_left \/ claimed_right

RECURSIVE TryClaimRSEFilter(_, _, _)
TryClaimRSEFilter(expr, get_to_bind_map, rse_columns) ==
    IF expr.expression_class = "BOUND_COMPARISON"
    THEN ClaimComparison(expr, get_to_bind_map, rse_columns)
    ELSE IF expr.expression_class = "BOUND_BETWEEN"
    THEN ClaimBetween(expr, get_to_bind_map, rse_columns)
    ELSE IF /\ expr.expression_class = "BOUND_CONJUNCTION"
            /\ expr.type = "CONJUNCTION_AND"
            /\ Len(expr.children) = 2
    THEN LET left == TryClaimRSEFilter(expr.children[1], get_to_bind_map, rse_columns)
             right == TryClaimRSEFilter(expr.children[2], get_to_bind_map, rse_columns)
             temp_claimed == left.claimed \o right.claimed
         IN  IF ClaimedAny(left.ret, right.ret)
             THEN [ret |-> TRUE, claimed |-> temp_claimed]
             ELSE Unclaimed
    ELSE Unclaimed

\* rse_column_indices: the indices in bind_data.columns that hold an RSE spec.
RSEColumnIndices(cols) == {i \in DOMAIN cols : cols[i] = "rse"}

\* The loop over the filter list, each call appending to claimed.
RECURSIVE ClaimFilters(_, _, _, _, _)
ClaimFilters(fs, i, get_to_bind_map, rse_columns, claimed) ==
    IF i > Len(fs)
    THEN claimed
    ELSE ClaimFilters(fs, i + 1, get_to_bind_map, rse_columns,
                      claimed \o TryClaimRSEFilter(fs[i], get_to_bind_map,
                                                   rse_columns).claimed)

FiltersWithoutClaimed(fs, get_to_bind_map, rse_columns) ==
    SelectSeq(fs, LAMBDA e : ~TryClaimRSEFilter(e, get_to_bind_map, rse_columns).ret)

\* The filter list the callback leaves to the host engine: the loop reads
\* each expression through a const reference and erases none.
FiltersAfterPushdown(fs, get_to_bind_map, rse_columns) == fs

\* ---- the inputs of the callback
ColumnKinds == {"regular", "rse"}

\* bind_data.columns as Bind leaves it: at least one regular column.
BoundColumns ==
    {cols \in [1..2 -> ColumnKinds] : \E i \in 1..2 : cols[i] = "regular"}

\* The projections of a scan: the columns it reads, in any order.
Projections == {<<1>>, <<2>>, <<1, 2>>, <<2, 1>>}

\* The column references a filter of a scan with ncols columns can hold.
ColumnRefs(ncols) ==
    {ColumnRef(table_index, c) : c \in 1..ncols} \cup {ColumnRef(other_table, 1)}

Operands(ncols) == ColumnRefs(ncols) \cup {Constant(v) : v \in RSEValues}

ComparisonExprs(ncols) ==
    {ComparisonExpr(type, left, right) :
        type \in ComparisonTypes, left \in Operands(ncols), right \in Operands(ncols)}

BetweenExprs(ncols) ==
    {BetweenExpr(input, lower, upper, li, ui) :
        input \in ColumnRefs(ncols) \cup {Constant(10)},
        lower \in {Constant(10), Constant(11), ColumnRef(other_table, 1)},
        upper \in {Constant(10), Constant(11)},
        li \in BOOLEAN, ui \in BOOLEAN}

\* The expressions that appear as children of a conjunction or an operator.
ChildExprs(ncols) ==
    {ComparisonExpr(type, left, right) :
        type \in {"COMPARE_LESSTHAN", "COMPARE_GREATERTHANOREQUALTO", "COMPARE_NOTEQUAL"},
        left \in {ColumnRef(table_index, 1), ColumnRef(table_index, ncols), Constant(10)},
        right \in {ColumnRef(table_index, 1), Constant(11)}}
    \cup {BetweenExpr(ColumnRef(table_index, c), Constant(10), Constant(11), TRUE, ui) :
            c \in 1..ncols, ui \in BOOLEAN}

ConjunctionTypes == {"CONJUNCTION_AND", "CONJUNCTION_OR"}

ConjunctionExprs(ncols) ==
    {ConjunctionExpr(type, <<a, b>>) :
        type \in ConjunctionTypes, a \in ChildExprs(ncols), b \in ChildExprs(ncols)}

\* Conjunctions with three children, and conjunctions over conjunctions.
DeepExprs(ncols) ==
    LET few == {ComparisonExpr("COMPARE_LESSTHAN", Constant(10), ColumnRef(table_index, c)) :
                    c \in 1..ncols}
               \cup {ComparisonExpr("COMPARE_NOTEQUAL", ColumnRef(table_index, 1), Constant(11)),
                     BetweenExpr(ColumnRef(table_index, 1), Constant(10), Constant(11),
                                 FALSE, TRUE)}
    IN  {ConjunctionExpr("CONJUNCTION_AND", <<a, b, c>>) : a \in few, b \in few, c \in few}
        \cup {ConjunctionExpr(t1, <<ConjunctionExpr(t2, <<a, b>>), c>>) :
                t1 \in ConjunctionTypes, t2 \in ConjunctionTypes,
                a \in few, b \in few, c \in few}
        \cup {ConjunctionExpr("CONJUNCTION_AND", <<c, NotExpr(a)>>) : a \in few, c \in few}

\* The filter lists offered: any one expression, or two of the child ones.
FilterLists(ncols) ==
    {<<e>> : e \in ComparisonExprs(ncols) \cup BetweenExprs(ncols)
                   \cup ConjunctionExprs(ncols) \cup DeepExprs(ncols)
                   \cup {NotExpr(a) : a \in ChildExprs(ncols)}}
    \cup {<<a, b>> : a \in ChildExprs(ncols), b \in ChildExprs(ncols)}

ClaimInit ==
    /\ columns \in BoundColumns
    /\ column_ids \in Projections
    /\ filters \in FilterLists(Len(column_ids))
    /\ pushdown_calls = 0
    /\ claimed_filters = <<>>
    /\ NoInit
    /\ NoBind
    /\ NoProjection
    /\ NoIntersection
    /\ NoRAII
    /\ NoScan
    /\ NoTasks
    /\ NoRSE

H5ReadPushdownComplexFilter ==
    /\ pushdown_calls < MaxPushdownCalls
    /\ LET rse_column_indices == RSEColumnIndices(columns)
           get_to_bind_map == column_ids
       IN  /\ claimed_filters' = ClaimFilters(filters, 1, get_to_bind_map,
                                              rse_column_indices, claimed_filters)
           /\ filters' = FiltersAfterPushdown(filters, get_to_bind_map, rse_column_indices)
    /\ pushdown_calls' = pushdown_calls + 1
    /\ UNCHANGED <<columns, column_ids, file_tables, init_fault, column_states,
                   init_status, bindVars, projVars, isectVars, raiiVars, scanVars,
                   lockVars, rseVars>>

ClaimNext == H5ReadPushdownComplexFilter

ClaimSpec == ClaimInit /\ [][ClaimNext]_vars

\* ======================================================== Bind (BindSpec)
\* H5ReadBind opens the file and every dataset named by the column arguments,
\* derives the schema and the row count, or throws.
MaxArgs == 3
MaxDim == 2

\* std::numeric_limits<hsize_t>::max(), above every dimension of a dataset.
hsize_max == MaxDim + 1

TypeClasses == {"H5T_INTEGER", "H5T_STRING", "H5T_COMPOUND"}

\* A string argument, with what the file holds at that path.
PathArgs ==
    {[kind |-> "path", exists |-> FALSE, ndims |-> 1, dim0 |-> 0,
      class |-> "H5T_INTEGER"]}
    \cup [kind : {"path"}, exists : {TRUE}, ndims : {0, 1, 2, 5}, dim0 : 0..MaxDim,
          class : TypeClasses]

\* A STRUCT argument: its field count, children[0], and what the file holds
\* at the paths in children[1] and children[2].
StructArgs ==
    [kind : {"struct"}, children : {2, 4}, encoding : {"rse"},
     starts_exists : {TRUE}, values_exists : {TRUE}, values_class : {"H5T_INTEGER"}]
    \cup [kind : {"struct"}, children : {3}, encoding : {"rle"},
          starts_exists : {TRUE}, values_exists : {TRUE}, values_class : {"H5T_INTEGER"}]
    \cup [kind : {"struct"}, children : {3}, encoding : {"rse"},
          starts_exists : BOOLEAN, values_exists : BOOLEAN,
          values_class : {"H5T_INTEGER", "H5T_COMPOUND"}]

BindArgs == PathArgs \cup StructArgs

\* Each helper gives "ok" or the exception it throws.
OpenDatasetAndGetType(exists) == IF exists THEN "ok" ELSE "IOException"

H5TypeToDuckDBType(class) ==
    IF class \in {"H5T_INTEGER", "H5T_FLOAT", "H5T_STRING"} THEN "ok" ELSE "IOException"

BuildArrayTypeAnyRank(ndims) == "ok"

BuildArrayType(ndims) ==
    IF ndims = 1 THEN "ok" ELSE IF ndims > 4 THEN "IOException" ELSE "ok"

\* The first step of a sequence of steps that does not end "ok".
FirstFailure(steps) ==
    IF \E k \in 1..Len(steps) : steps[k] # "ok"
    THEN steps[CHOOSE k \in 1..Len(steps) :
                   steps[k] # "ok" /\ \A j \in 1..(k - 1) : steps[j] = "ok"]
    ELSE "ok"

\* The STRUCT branch of the column loop.
BindRSEColumn(arg) ==
    FirstFailure(<<IF arg.children # 3 THEN "InvalidInputException" ELSE "ok",
                   IF arg.encoding # "rse" THEN "InvalidInputException" ELSE "ok",
                   OpenDatasetAndGetType(arg.starts_exists),
                   OpenDatasetAndGetType(arg.values_exists),
                   H5TypeToDuckDBType(arg.values_class)>>)

\* The regular-dataset branch of the column loop.
BindRegularColumn(arg) ==
    FirstFailure(<<OpenDatasetAndGetType(arg.exists),
                   IF arg.ndims <= 0 THEN "IOException" ELSE "ok",
                   H5TypeToDuckDBType(arg.class),
                   BuildArrayType(arg.ndims)>>)

TrackLastRows(min_rows, dim0) == dim0

\* min_rows after a regular dataset whose first dimension is dim0.
TrackMinRows(min_rows, dim0) == IF dim0 < min_rows THEN dim0 ELSE min_rows

\* The loop over the column arguments, from argument i on.
RECURSIVE BindColumns(_, _, _, _, _)
BindColumns(args, i, min_rows, num_regular_datasets, cols) ==
    IF i > Len(args)
    THEN IF num_regular_datasets = 0
         THEN [status |-> "IOException", num_rows |-> 0, columns |-> <<>>]
         ELSE [status |-> "ok", num_rows |-> min_rows, columns |-> cols]
    ELSE IF args[i].kind = "struct"
    THEN IF BindRSEColumn(args[i]) # "ok"
         THEN [status |-> BindRSEColumn(args[i]), num_rows |-> 0, columns |-> <<>>]
         ELSE BindColumns(args, i + 1, min_rows, num_regular_datasets,
                          Append(cols, "rse"))
    ELSE IF BindRegularColumn(args[i]) # "ok"
         THEN [status |-> BindRegularColumn(args[i]), num_rows |-> 0, columns |-> <<>>]
         ELSE BindColumns(args, i + 1, TrackMinRows(min_rows, args[i].dim0),
                          num_regular_datasets + 1, Append(cols, "regular"))

\* What a Bind call returns or throws.
BindResult(file_valid, args) ==
    IF Len(args) < 1 \/ ~file_valid
    THEN [status |-> "IOException", num_rows |-> 0, columns |-> <<>>]
    ELSE BindColumns(args, 1, hsize_max, 0, <<>>)

BindInit ==
    /\ file_is_valid \in BOOLEAN
    /\ inputs \in SeqsUpTo(BindArgs, MaxArgs)
    /\ bind_status = "none"
    /\ NoPushdown
    /\ claimed_filters = <<>>
    /\ NoInit
    /\ NoProjection
    /\ NoIntersection
    /\ NoRAII
    /\ NoScan
    /\ NoTasks
    /\ NoRSE

H5ReadBindCall ==
    /\ bind_status = "none"
    /\ LET result == BindResult(file_is_valid, inputs)
       IN  /\ bind_status' = result.status
           /\ IF result.status = "ok"
              THEN /\ num_rows' = result.num_rows
                   /\ columns' = result.columns
              ELSE UNCHANGED <<num_rows, columns>>
    /\ UNCHANGED <<file_is_valid, inputs, column_ids, filters, pushdown_calls,
                   planVars, valid_row_ranges, chunk_size, position, position_done,
                   completed_ranges, handed, reported, cacheVars, pc, slice,
                   readerVars, loaderVars, lockVars, rseVars, projVars,
                   isectVars, raiiVars>>

BindNext == H5ReadBindCall

BindSpec == BindInit /\ [][BindNext]_vars

\* ================================================ projection (ProjSpec)
\* H5ReadInit builds one column state per scanned column; H5ReadScan fills
\* output vector i from column state i.
MaxProjRows == 4

\* The value the file holds for bind column c at row r.
ColumnData(c, r) == c * 10 + r

\* columns_to_scan: input.column_ids, or every column when it is empty.
ColumnsToScan(ids, cols) == IF ids = <<>> THEN [i \in 1..Len(cols) |-> i] ELSE ids

\* global_to_local after the loop over columns_to_scan: a later local index
\* overwrites an earlier one for the same global index.
GlobalToLocalMap(cts) ==
    [g \in {cts[i] : i \in 1..Len(cts)} |->
        CHOOSE i \in 1..Len(cts) : cts[i] = g /\ \A j \in 1..Len(cts) : cts[j] = g => j <= i]

GetGlobalIdxLocal(cts, local_idx) == local_idx

\* GetGlobalIdx: columns_to_scan[local_idx]
GetGlobalIdx(cts, local_idx) == cts[local_idx]

\* The column loop of H5ReadInit: the state pushed for local index i holds
\* the datasets of bind column GetGlobalIdx(i), opened from that spec's paths.
InitColumnStates(cts, cols) ==
    [i \in 1..Len(cts) |->
        [dataset |-> GetGlobalIdx(cts, i), kind |-> cols[GetGlobalIdx(cts, i)]]]

\* The column loop of H5ReadScan for the slice [p, p + n): vector i is filled
\* from column state i when that state is of the kind of spec GetGlobalIdx(i).
FillOutput(cts, cols, states, p, n) ==
    [i \in 1..Len(cts) |->
        IF cols[GetGlobalIdx(cts, i)] = states[i].kind
        THEN [k \in 0..(n - 1) |-> ColumnData(states[i].dataset, p + k)]
        ELSE [k \in 0..(n - 1) |-> Unset]]

\* The projections the host engine asks for: none (every column), or distinct
\* columns in any order.
ColumnIdLists(ncols) ==
    {<<>>} \cup {ids \in SeqsUpTo(1..ncols, ncols) :
                    ids # <<>> /\ \A i, j \in 1..Len(ids) : ids[i] = ids[j] => i = j}

ProjInit ==
    /\ num_rows \in 0..MaxProjRows
    /\ valid_row_ranges = <<RowRange(0, num_rows)>>
    /\ chunk_size = VECTOR_SIZE
    /\ columns \in {cols \in [1..3 -> ColumnKinds] : \E i \in 1..3 : cols[i] = "regular"}
    /\ column_ids \in ColumnIdLists(3)
    /\ filters = <<>>
    /\ pushdown_calls = 0
    /\ claimed_filters = <<>>
    /\ NoInit
    /\ NoBind
    /\ NoProjection
    /\ NoIntersection
    /\ NoRAII
    /\ ScanFresh
    /\ NoTasks
    /\ NoRSE

H5ReadInitProjection ==
    /\ init_status = "none"
    /\ columns_to_scan' = ColumnsToScan(column_ids, columns)
    /\ global_to_local' = GlobalToLocalMap(columns_to_scan')
    /\ column_states' = InitColumnStates(columns_to_scan', columns)
    /\ opened' = {column_states'[i].dataset : i \in 1..Len(column_states')}
    /\ init_status' = "ok"
    /\ UNCHANGED <<output, file_tables, claimed_filters, init_fault, claimVars, bindVars,
                   isectVars, raiiVars, scanVars, lockVars, rseVars>>

\* One H5ReadScan call of worker 1, from GetNextDataRange to the completion
\* report; without data the output has cardinality 0.
H5ReadScanProjection ==
    /\ init_status = "ok"
    /\ pc[1] = "idle"
    /\ LET range == NextRangeFrom(valid_row_ranges, position)
       IN  IF range.has_data
           THEN /\ position' = position + range.to_read
                /\ position_done' = position + range.to_read
                /\ slice' = [slice EXCEPT ![1] =
                       [p |-> range.position, n |-> range.to_read, range |-> range.range]]
                /\ output' = FillOutput(columns_to_scan, columns, column_states,
                                        range.position, range.to_read)
                /\ pc' = pc
           ELSE /\ pc' = [pc EXCEPT ![1] = "done"]
                /\ output' = <<>>
                /\ UNCHANGED <<position, position_done, slice>>
    /\ UNCHANGED <<columns_to_scan, global_to_local, opened, planVars, claimVars, bindVars,
                   isectVars, raiiVars, num_rows, valid_row_ranges, chunk_size, completed_ranges,
                   handed,
                   reported, cacheVars, readerVars, loaderVars, lockVars, rseVars>>

ProjNext == H5ReadInitProjection \/ H5ReadScanProjection

ProjSpec == ProjInit /\ [][ProjNext]_vars

\* ============================== IntersectRowRanges on its own (IsectSpec)
MaxIsectRows == 4

\* The sorted lists of at most two non-empty, disjoint ranges inside [0, n).
SortedRangeLists(n) == {rs \in RangeLists(n) : SortedDisjoint(rs)}

\* The argument pairs the calls are made with: (a, b), (b, a), (a, a) and the
\* planner's two orders over the full list [{0, n}].
IntersectCalls ==
    LET full == <<RowRange(0, MaxIsectRows)>>
    IN  <<[a |-> ranges_a, b |-> ranges_b],
          [a |-> ranges_b, b |-> ranges_a],
          [a |-> ranges_a, b |-> ranges_a],
          [a |-> IntersectRowRanges(full, ranges_a), b |-> ranges_b],
          [a |-> IntersectRowRanges(full, ranges_b), b |-> ranges_a]>>

IsectInit ==
    /\ ranges_a \in SortedRangeLists(MaxIsectRows)
    /\ ranges_b \in SortedRangeLists(MaxIsectRows)
    /\ intersections = <<>>
    /\ NoPushdown
    /\ claimed_filters = <<>>
    /\ NoInit
    /\ NoBind
    /\ NoProjection
    /\ NoRAII
    /\ NoScan
    /\ NoTasks
    /\ NoRSE

\* The next call of IntersectRowRanges, recorded with its arguments.
IntersectRowRangesCall ==
    /\ Len(intersections) < Len(IntersectCalls)
    /\ LET call == IntersectCalls[Len(intersections) + 1]
       IN  intersections' = Append(intersections,
               [a |-> call.a, b |-> call.b, result |-> IntersectRowRanges(call.a, call.b)])
    /\ UNCHANGED <<ranges_a, ranges_b, planVars, claimVars, bindVars, projVars, raiiVars,
                   scanVars, lockVars, rseVars>>

IsectNext == IntersectRowRangesCall

IsectSpec == IsectInit /\ [][IsectNext]_vars

\* ===================================== error suppression scopes (ErrSpec)
MaxNesting == 2

\* The handlers the host engine may have installed, nullptr for none.
Handlers == {"host_print", "host_silent", "nullptr"}

\* The H5ErrorSuppressor scopes of h5_read.cpp; the scope around the RSE
\* dataset opens of H5ReadInit is the one that can throw inside the scope.
SuppressorSites ==
    {"OpenDatasetAndGetType", "H5ReadBind", "H5ReadInit file", "H5ReadInit dataset",
     "H5ReadInit rse"}

ThrowingSites == {"H5ReadInit rse"}

\* A constructor that takes the library's default for the handler (mutation).
GetAutoDefault(handler) == "host_print"

\* H5Eget_auto2(H5E_DEFAULT, &old_func, &old_client_data)
GetAuto(handler) == handler

ErrInit ==
    /\ error_handler \in Handlers
    /\ suppressors = <<>>
    /\ unwinding = FALSE
    /\ last_ended = [site |-> "none", installed |-> "nullptr", left_with |-> "nullptr",
                     by |-> "none"]
    /\ NoHandles
    /\ NoIntersection
    /\ NoProjection
    /\ NoBind
    /\ NoPushdown
    /\ claimed_filters = <<>>
    /\ NoInit
    /\ NoScan
    /\ NoTasks
    /\ NoRSE

errOthers == <<handleVars, isectVars, projVars, bindVars, claimVars, planVars, scanVars,
               lockVars, rseVars>>

\* H5ErrorSuppressor(): save the handler, install none.  `installed` records
\* the handler in place when the scope was entered.
EnterSuppressor(site) ==
    /\ ~unwinding
    /\ Len(suppressors) < MaxNesting
    /\ suppressors' = Append(suppressors,
           [old_func |-> GetAuto(error_handler), installed |-> error_handler,
            site |-> site])
    /\ error_handler' = "nullptr"
    /\ UNCHANGED <<unwinding, last_ended, errOthers>>

\* ~H5ErrorSuppressor() of the innermost scope: H5Eset_auto2(old_func).
DestroySuppressor(by) ==
    /\ suppressors # <<>>
    /\ LET top == suppressors[Len(suppressors)]
       IN  /\ error_handler' = top.old_func
           /\ last_ended' = [site |-> top.site, installed |-> top.installed,
                             left_with |-> top.old_func, by |-> by]
    /\ suppressors' = SubSeq(suppressors, 1, Len(suppressors) - 1)

\* The closing brace of the scope is reached.
LeaveSuppressor ==
    /\ ~unwinding
    /\ DestroySuppressor("exit")
    /\ UNCHANGED <<unwinding, errOthers>>

\* throw IOException inside the scope (a failed RSE dataset open).
ThrowInScope ==
    /\ ~unwinding
    /\ suppressors # <<>>
    /\ suppressors[Len(suppressors)].site \in ThrowingSites
    /\ unwinding' = TRUE
    /\ UNCHANGED <<error_handler, suppressors, last_ended, errOthers>>

\* Stack unwinding destroys the innermost live scope.
UnwindSuppressor ==
    /\ unwinding
    /\ DestroySuppressor("exception")
    /\ UNCHANGED <<unwinding, errOthers>>

\* The exception has left every scope and reaches the host engine.
ExceptionLeaves ==
    /\ unwinding
    /\ suppressors = <<>>
    /\ unwinding' = FALSE
    /\ UNCHANGED <<error_handler, suppressors, last_ended, errOthers>>

ErrNext ==
    \/ \E site \in SuppressorSites : EnterSuppressor(site)
    \/ LeaveSuppressor
    \/ ThrowInScope
    \/ UnwindSuppressor
    \/ ExceptionLeaves

ErrSpec == ErrInit /\ [][ErrNext]_vars

\* ================================== handle ownership in Bind (HandleSpec)
MaxBindColumns == 2

\* A wrapper object: a local of H5ReadBind or OpenDatasetAndGetType (col 0),
\* or a member of the column spec stored in the bind record (col >= 1).
Wrapper(col, name) == [col |-> col, name |-> name]

\* The locals that live for one column of the loop in H5ReadBind.
ColumnLocals ==
    {Wrapper(0, name) : name \in
        {"temp", "dataset", "dataset_b", "type", "space", "starts_ds", "starts_type",
         "values_ds", "values_type", "ds_info.h5_type_id", "rse_spec.run_starts_h5_type",
         "rse_spec.values_h5_type"}}

\* The H5TypeHandle members of the column specs in result->columns.
RecordWrappers ==
    {Wrapper(col, name) : col \in 1..MaxBindColumns,
                          name \in {"h5_type_id", "run_starts_h5_type", "values_h5_type"}}

AllWrappers == {Wrapper(0, "file")} \cup ColumnLocals \cup RecordWrappers

\* The library hands out a new handle of the given kind.
NewHandle(st, kind) ==
    [o |-> st.o, h |-> Append(st.h, [kind |-> kind, closes |-> 0])]

\* A wrapper constructor that calls the library (H5Fopen, H5Dopen2,
\* H5Dget_space, H5Tcopy) and keeps the id it returns.
Acquire(st, w, kind) ==
    [o |-> [st.o EXCEPT ![w] = Len(st.h) + 1],
     h |-> Append(st.h, [kind |-> kind, closes |-> 0])]

\* H5Fclose / H5Dclose / H5Sclose / H5Tclose on id.
CloseHandle(h, id) == [h EXCEPT ![id].closes = @ + 1]

\* The destructor: if (id >= 0) close(id).
Destroy(st, w) ==
    [o |-> [st.o EXCEPT ![w] = 0 - 1],
     h |-> IF st.o[w] >= 0 THEN CloseHandle(st.h, st.o[w]) ELSE st.h]

\* The move constructor: id(other.id), other.id = -1.
MoveConstruct(st, dst, src) ==
    [o |-> [st.o EXCEPT ![dst] = st.o[src], ![src] = 0 - 1], h |-> st.h]

\* The move assignment: close the id held, take other's, other.id = -1.
MoveAssign(st, dst, src) ==
    IF dst = src
    THEN st
    ELSE [o |-> [st.o EXCEPT ![dst] = st.o[src], ![src] = 0 - 1],
          h |-> IF st.o[dst] >= 0 THEN CloseHandle(st.h, st.o[dst]) ELSE st.h]

\* The destructors of a set of wrappers.
RECURSIVE DestroyAll(_, _)
DestroyAll(st, ws) ==
    IF ws = {}
    THEN st
    ELSE LET w == CHOOSE x \in ws : TRUE
         IN  DestroyAll(Destroy(st, w), ws \ {w})

\* `x = Wrapper(args)`: a temporary acquires the handle, x is move-assigned
\* from it and the temporary is destroyed.
AssignNew(st, w, kind) ==
    Destroy(MoveAssign(Acquire(st, Wrapper(0, "temp"), kind), w, Wrapper(0, "temp")),
            Wrapper(0, "temp"))

HandleState == [o |-> owners, h |-> h5_handles]

\* The structured bindings that receive the pair OpenDatasetAndGetType returns.
BoundDataset ==
    IF columns[bind_at.col] = "regular" THEN Wrapper(0, "dataset_b")
    ELSE IF bind_at.part = 1 THEN Wrapper(0, "starts_ds") ELSE Wrapper(0, "values_ds")

BoundType ==
    IF columns[bind_at.col] = "regular" THEN Wrapper(0, "type")
    ELSE IF bind_at.part = 1 THEN Wrapper(0, "starts_type") ELSE Wrapper(0, "values_type")

HandleInit ==
    /\ \E n \in 1..MaxBindColumns : columns \in [1..n -> ColumnKinds]
    /\ column_ids = <<>>
    /\ filters = <<>>
    /\ pushdown_calls = 0
    /\ h5_handles = <<>>
    /\ owners = [w \in AllWrappers |-> 0 - 1]
    /\ bind_at = [pc |-> "open_file", col |-> 0, part |-> 0, type_id |-> 0 - 1]
    /\ NoSuppression
    /\ NoIntersection
    /\ NoProjection
    /\ NoBind
    /\ claimed_filters = <<>>
    /\ NoInit
    /\ NoScan
    /\ NoTasks
    /\ NoRSE

handleOthers == <<errVars, isectVars, projVars, bindVars, claimVars, planVars, scanVars,
                  lockVars, rseVars>>

\* The state st is stored and Bind goes on at pc, col, part.
BindGoes(st, pc_next, col, part, type_id) ==
    /\ owners' = st.o
    /\ h5_handles' = st.h
    /\ bind_at' = [pc |-> pc_next, col |-> col, part |-> part, type_id |-> type_id]
    /\ UNCHANGED handleOthers

\* An exception is thrown: Bind is left through the destructors.
BindThrows(st) == BindGoes(st, "unwind", bind_at.col, bind_at.part, bind_at.type_id)

\* file = H5FileHandle(filename, H5F_ACC_RDONLY); throw when invalid.
BindOpenFile ==
    /\ bind_at.pc = "open_file"
    /\ \/ BindGoes(AssignNew(HandleState, Wrapper(0, "file"), "file"), "open_ds", 1, 1, 0 - 1)
       \/ BindThrows(HandleState)

\* OpenDatasetAndGetType: dataset = H5DatasetHandle(file, path); throw when
\* invalid.
OpenDataset ==
    /\ bind_at.pc = "open_ds"
    /\ \/ BindGoes(AssignNew(HandleState, Wrapper(0, "dataset"), "dataset"),
                   "get_type", bind_at.col, bind_at.part, 0 - 1)
       \/ BindThrows(HandleState)

\* OpenDatasetAndGetType: hid_t type_id = H5Dget_type(dataset); throw when
\* negative.  The id is held in a plain hid_t.
GetDatasetType ==
    /\ bind_at.pc = "get_type"
    /\ \/ BindGoes(NewHandle(HandleState, "datatype"), "return_pair", bind_at.col,
                   bind_at.part, Len(h5_handles) + 1)
       \/ BindThrows(HandleState)

\* OpenDatasetAndGetType: return {std::move(dataset), H5TypeHandle(type_id)}.
\* H5TypeHandle(hid_t) holds H5Tcopy(type_id) and throws when that fails; the
\* local dataset is destroyed on the way out.
ReturnPair ==
    /\ bind_at.pc = "return_pair"
    /\ LET moved == MoveConstruct(HandleState, BoundDataset, Wrapper(0, "dataset"))
           copied == Acquire(moved, BoundType, "datatype")
           next_pc == IF columns[bind_at.col] = "rse" /\ bind_at.part = 1
                      THEN "store_starts" ELSE "inspect"
       IN  \/ BindGoes(Destroy(copied, Wrapper(0, "dataset")), next_pc, bind_at.col,
                       bind_at.part, 0 - 1)
           \/ BindThrows(moved)

\* rse_spec.run_starts_h5_type = std::move(starts_type)
StoreStartsType ==
    /\ bind_at.pc = "store_starts"
    /\ BindGoes(MoveAssign(HandleState, Wrapper(0, "rse_spec.run_starts_h5_type"),
                           Wrapper(0, "starts_type")),
                "open_ds", bind_at.col, 2, 0 - 1)

\* The uses of the dataset and the type before they are stored: the
\* dataspace of a regular dataset (invalid, or without dimensions) and
\* H5TypeToDuckDBType, each of which may throw.
InspectColumn ==
    /\ bind_at.pc = "inspect"
    /\ LET with_space == IF columns[bind_at.col] = "regular"
                         THEN Acquire(HandleState, Wrapper(0, "space"), "dataspace")
                         ELSE HandleState
       IN  \/ BindGoes(with_space, "store", bind_at.col, bind_at.part, 0 - 1)
           \/ BindThrows(with_space)
           \/ columns[bind_at.col] = "regular" /\ BindThrows(HandleState)

\* The type handle is moved into the spec and the spec into result->columns.
StoreColumn ==
    /\ bind_at.pc = "store"
    /\ LET col == bind_at.col
           st == HandleState
       IN  IF columns[col] = "regular"
           THEN BindGoes(
                    MoveConstruct(
                        MoveAssign(st, Wrapper(0, "ds_info.h5_type_id"), Wrapper(0, "type")),
                        Wrapper(col, "h5_type_id"), Wrapper(0, "ds_info.h5_type_id")),
                    "end_column", col, bind_at.part, 0 - 1)
           ELSE BindGoes(
                    MoveConstruct(
                        MoveConstruct(
                            MoveAssign(st, Wrapper(0, "rse_spec.values_h5_type"),
                                       Wrapper(0, "values_type")),
                            Wrapper(col, "run_starts_h5_type"),
                            Wrapper(0, "rse_spec.run_starts_h5_type")),
                        Wrapper(col, "values_h5_type"), Wrapper(0, "rse_spec.values_h5_type")),
                    "end_column", col, bind_at.part, 0 - 1)

\* The end of the loop body: the column's locals are destroyed.
EndColumn ==
    /\ bind_at.pc = "end_column"
    /\ LET st == DestroyAll(HandleState, ColumnLocals)
       IN  IF bind_at.col < Len(columns)
           THEN BindGoes(st, "open_ds", bind_at.col + 1, 1, 0 - 1)
           ELSE BindGoes(st, "finish", bind_at.col, 1, 0 - 1)

\* After the loop: throw without a regular dataset, else return the bind
\* record; the local file handle is destroyed.
BindFinish ==
    /\ bind_at.pc = "finish"
    /\ IF \A i \in 1..Len(columns) : columns[i] # "regular"
       THEN BindThrows(HandleState)
       ELSE BindGoes(Destroy(HandleState, Wrapper(0, "file")), "bound", bind_at.col, 1, 0 - 1)

\* The bind record is dropped: the column specs are destroyed.
DropBindData ==
    /\ bind_at.pc = "bound"
    /\ BindGoes(DestroyAll(HandleState, RecordWrappers), "dropped", bind_at.col, 1, 0 - 1)

\* Stack unwinding out of H5ReadBind: every local and the half-built bind
\* record are destroyed.
UnwindBind ==
    /\ bind_at.pc = "unwind"
    /\ BindGoes(DestroyAll(HandleState, AllWrappers), "failed", bind_at.col, bind_at.part,
                bind_at.type_id)

HandleNext ==
    \/ BindOpenFile
    \/ OpenDataset
    \/ GetDatasetType
    \/ ReturnPair
    \/ StoreStartsType
    \/ InspectColumn
    \/ StoreColumn
    \/ EndColumn
    \/ BindFinish
    \/ DropBindData
    \/ UnwindBind

HandleSpec == HandleInit /\ [][HandleNext]_vars

\* =================================================================== claims
InFlight(w) == pc[w] \notin {"idle", "done"}
LoadingPcs == {"ld_check", "ld_read", "ld_publish"}
SliceRows(sl) == sl.p..(sl.p + sl.n - 1)
RangeRows(r) == r.start_row..(r.end_row - 1)

\* C1: every slice GetNextDataRange hands out starts at max(position,
\* r.start_row) of the first range r past position, so it lies inside one
\* valid row range (also when the first range does not start at 0 and when
\* there are gaps between ranges).
C1_SliceInsideOneRange ==
    \A i \in 1..Len(handed) :
        \E r \in 1..Len(valid_row_ranges) :
            /\ valid_row_ranges[r].start_row <= handed[i].p
            /\ handed[i].p + handed[i].n <= valid_row_ranges[r].end_row

\* C2: the slices handed out are pairwise disjoint and in strictly ascending
\* start order, each has 1 <= length <= VECTOR_SIZE and ends at or before the
\* end_row of the range it was taken from; once some worker has been told
\* "no more data", every row of every valid range is in exactly one slice.
C2_SlicesPartitionRanges ==
    /\ \A i \in 1..Len(handed) :
        /\ 1 <= handed[i].n /\ handed[i].n <= VECTOR_SIZE
        /\ handed[i].p + handed[i].n <= valid_row_ranges[handed[i].range].end_row
    /\ \A i \in 1..Len(handed) : \A j \in (i + 1)..Len(handed) :
        /\ handed[i].p < handed[j].p
        /\ SliceRows(handed[i]) \cap SliceRows(handed[j]) = {}
    /\ (\E w \in Workers : pc[w] = "done") =>
        \A r \in 1..Len(valid_row_ranges) : \A row \in RangeRows(valid_row_ranges[r]) :
            Cardinality({i \in 1..Len(handed) : row \in SliceRows(handed[i])}) = 1

C2_Witness ==
    /\ \E w \in Workers : pc[w] = "done"
    /\ \E w \in Workers : InFlight(w)
    /\ Len(valid_row_ranges) = 2
    /\ valid_row_ranges[1].end_row < valid_row_ranges[2].start_row
    /\ Len(handed) >= 3

\* C3: with two or more workers, chunk_size >= VECTOR_SIZE and every worker
\* scheduled fairly, no worker stays blocked forever in the wait on a chunk's
\* end_row, and position_done eventually reaches the final position.  Stated
\* on finite runs: until every worker has left the scan, some worker can
\* take a step.
C3_NoWorkerBlockedForever ==
    (chunk_size >= VECTOR_SIZE /\ NumWorkers >= 2) =>
        ((\A w \in Workers : pc[w] = "done") \/ ENABLED Next)

\* C3 as a temporal property of FairSpec.
C3_CacheLiveness ==
    /\ \A w \in Workers :
        (pc[w] = "wait" /\ chunk_size >= VECTOR_SIZE) ~> (pc[w] # "wait")
    /\ (chunk_size >= VECTOR_SIZE) =>
        <>(position_done = position /\ \A w \in Workers : pc[w] = "done")

\* C4: a delivered slice [p, p+n) of the cached column holds dataset row p+k
\* at output row k; a reader never copies from a buffer the loader is writing
\* or has written but not yet published, and what it copies is the load that
\* published the end_row it observed.
C4_CachedRowsCorrect ==
    /\ \A w \in Workers : pc[w] = "report" =>
        \A k \in 0..(slice[w].n - 1) : out[w][k] = slice[w].p + k
    /\ \A r \in Workers : pc[r] = "cp_copy" =>
        /\ \A l \in Workers :
            pc[l] \in {"ld_read", "ld_publish"} => cidx[l] # CopyChunk(r)
        /\ end_row[CopyChunk(r)] = chunk_end[r]
        /\ cache[CopyChunk(r)].base = chunk_end[r] - chunk_size

\* A full slice that starts in one chunk and ends in the next one, after the
\* first chunk of the pair was loaded over a finished chunk.
C4_Witness ==
    \E w \in Workers :
        /\ pc[w] = "report"
        /\ slice[w].n = VECTOR_SIZE
        /\ chunk_size >= VECTOR_SIZE
        /\ slice[w].p >= chunk_size
        /\ slice[w].p + slice[w].n > 2 * chunk_size
        /\ slice[w].p < 2 * chunk_size
        /\ \E l \in Workers : pc[l] \in LoadingPcs

\* C5: the loader overwrites a chunk buffer only when the chunk's end_row <=
\* position_done, and then no slice in flight or still to be handed out has a
\* row in the chunk's covered range; a buffer changes only in such a state.
C5_OverwriteOnlyFinished ==
    /\ [](\A l \in Workers : pc[l] = "ld_read" =>
            /\ end_row[cidx[l]] <= position_done
            /\ end_row[cidx[l]] <= position
            /\ \A w \in Workers : InFlight(w) =>
                SliceRows(slice[w]) \cap
                    (ChunkStart(end_row[cidx[l]], chunk_size)..(end_row[cidx[l]] - 1)) = {})
    /\ [][\A c \in Chunks : cache'[c] # cache[c] => end_row[c] <= position_done]_vars

C5_Witness ==
    \E l \in Workers :
        /\ pc[l] = "ld_read"
        /\ end_row[cidx[l]] > 0
        /\ \E w \in Workers : w # l /\ pc[w] = "cp_copy"

\* C6: at most one task is between the successful compare-exchange of
\* someone_is_fetching and the store that clears it, the flag is set exactly
\* then, and buffers and end_row values change only by that task's step.
C6_SingleLoader ==
    /\ [](/\ Cardinality({w \in Workers : pc[w] \in LoadingPcs}) <= 1
          /\ someone_is_fetching <=> (\E w \in Workers : pc[w] \in LoadingPcs))
    /\ [][(cache' # cache \/ end_row' # end_row) =>
            /\ someone_is_fetching
            /\ Cardinality({w \in Workers : pc[w] \in {"ld_read", "ld_publish"}}) = 1]_vars

C6_Witness ==
    \E l \in Workers : \E r \in Workers :
        /\ pc[l] = "ld_read"
        /\ pc[r] = "refresh"
        /\ someone_is_fetching

\* C7: position_done <= position <= num_rows in every state, and neither
\* position nor position_done ever decreases.
C7_PositionsOrderedMonotone ==
    /\ [](position_done <= position /\ position <= num_rows)
    /\ [][position' >= position /\ position_done' >= position_done]_vars

C7_Witness ==
    /\ 0 < position_done
    /\ position_done < position
    /\ position < num_rows
    /\ completed_ranges # {}

\* C8: position_done is a low-water mark: every handed-out slice that starts
\* below it has reported completion, and every slice in flight starts at or
\* above it.
C8_LowWaterMark ==
    /\ \A i \in 1..Len(handed) : handed[i].p < position_done => handed[i].p \in reported
    /\ \A w \in Workers : InFlight(w) => slice[w].p >= position_done

C8_Witness ==
    /\ completed_ranges # {}
    /\ position_done > 0
    /\ \E w \in Workers : InFlight(w) /\ slice[w].p = position_done

\* C9: every HDF5 call made by Bind, Init, the cache loader and the direct
\* read path is made while the caller holds hdf5_global_mutex, so no two tasks
\* are inside the library at the same time, and a read transfers the rows its
\* own hyperslab selection on the shared file dataspace asked for.
C9_LibraryCallsUnderLock ==
    /\ \A t \in in_library : hdf5_global_mutex = t
    /\ Cardinality(in_library) <= 1
    /\ \A t \in Workers : read_got[t] # Unset => read_got[t] = read_start[t]

\* The run a row belongs to, counted from 1: max{i : run_starts[i] <= row}.
RunOf(row) ==
    CHOOSE i \in 1..Len(run_starts) :
        /\ run_starts[i] <= row
        /\ \A j \in 1..Len(run_starts) : run_starts[j] <= row => j <= i

\* C10: for a valid run table and a slice [p, p+n) inside [0, num_rows),
\* ScanRSEColumn gives row p+k the value values[j], j = max{i : run_starts[i]
\* <= p+k}, as a constant vector or as a flat vector of n entries; two calls
\* for the same slice give the same vector whatever was materialized before
\* and whichever worker calls; the run table never changes.
C10_RSEExpansion ==
    /\ [](rse_last.vec.type # "NONE" =>
            /\ \A k \in 0..(rse_last.n - 1) :
                VectorRow(rse_last.vec, k) = rse_values[RunOf(rse_last.p + k)]
            /\ rse_last.vec.type = "FLAT_VECTOR" => Len(rse_last.vec.data) = rse_last.n
            /\ rse_last.vec.type = "CONSTANT_VECTOR" => Len(rse_last.vec.data) = 1)
    /\ []((rse_prev.vec.type # "NONE" /\ rse_prev.p = rse_last.p /\ rse_prev.n = rse_last.n)
            => rse_prev.vec = rse_last.vec)
    /\ [][run_starts' = run_starts /\ rse_values' = rse_values
            /\ rse_num_rows' = rse_num_rows]_vars

\* A slice over three runs with different values, materialized as a flat
\* vector by one worker right after the other worker materialized it.
C10_Witness ==
    /\ rse_last.vec.type = "FLAT_VECTOR"
    /\ rse_last.n = MaxRead
    /\ RunOf(rse_last.p + rse_last.n - 1) = RunOf(rse_last.p) + 2
    /\ rse_last.vec.data[1] # rse_last.vec.data[2]
    /\ rse_prev.p = rse_last.p /\ rse_prev.n = rse_last.n
    /\ rse_prev.w # rse_last.w /\ rse_prev.w # 0

\* The comparison `value op constant` as the filter expression means it.
CmpHolds(value, op, constant) ==
    \/ op = "COMPARE_EQUAL" /\ value = constant
    \/ op = "COMPARE_GREATERTHAN" /\ value > constant
    \/ op = "COMPARE_GREATERTHANOREQUALTO" /\ value >= constant
    \/ op = "COMPARE_LESSTHAN" /\ value < constant
    \/ op = "COMPARE_LESSTHANOREQUALTO" /\ value <= constant

\* Row i lies in a run of column col whose value satisfies every claimed
\* comparison on col.
RowSatisfies(col, i) ==
    LET st == column_states[col]
    IN  \E r \in 1..Len(st.run_starts) :
            /\ st.run_starts[r] <= i
            /\ i < (IF r < Len(st.run_starts) THEN st.run_starts[r + 1] ELSE num_rows)
            /\ \A k \in 1..Len(claimed_filters) :
                claimed_filters[k].column_index = col =>
                    CmpHolds(st.values[r], claimed_filters[k].comparison,
                             claimed_filters[k].constant)

RowsOf(ranges) == UNION {RangeRows(ranges[k]) : k \in 1..Len(ranges)}

\* C11: after Init, the union of valid_row_ranges is exactly the set of rows
\* of [0, num_rows) whose run satisfies, in every filtered column, every
\* claimed comparison on that column; without claims the list is
\* [{0, num_rows}].
C11_PlannerExact ==
    init_status = "ok" =>
        /\ RowsOf(valid_row_ranges) =
              {i \in 0..(num_rows - 1) :
                  \A col \in FilteredColumns(claimed_filters) : RowSatisfies(col, i)}
        /\ claimed_filters = <<>> => valid_row_ranges = <<RowRange(0, num_rows)>>

\* Filters on both columns, one of them cutting the rows into two ranges.
C11_Witness ==
    /\ init_status = "ok"
    /\ FilteredColumns(claimed_filters) = PlanColumns
    /\ Len(valid_row_ranges) = 2
    /\ Len(column_states[1].run_starts) = MaxPlanRows
    /\ Len(column_states[2].run_starts) >= 2

\* C12: for valid run tables and any claimed filters, the list Init produces
\* is sorted by start_row, its ranges are non-empty and pairwise disjoint
\* (each end_row <= the next start_row) and lie inside [0, num_rows).
C12_RangesSortedDisjoint ==
    (init_status = "ok" /\ \A c \in PlanColumns : Len(column_states[c].run_starts) >= 1) =>
        /\ SortedDisjoint(valid_row_ranges)
        /\ \A k \in 1..Len(valid_row_ranges) :
            /\ 0 <= valid_row_ranges[k].start_row
            /\ valid_row_ranges[k].end_row <= num_rows

\* Two filters on one column leave two ranges; the other column's filter
\* keeps only part of the rows.
C12_Witness ==
    /\ init_status = "ok"
    /\ Len(claimed_filters) = 2
    /\ Len(valid_row_ranges) = 2
    /\ valid_row_ranges[1].end_row < valid_row_ranges[2].start_row
    /\ claimed_filters[1].column_index # claimed_filters[2].column_index
    /\ \A c \in PlanColumns : Len(column_states[c].run_starts) >= 2

\* A file table that breaks one of the five rules.
TableInvalid(tb, n) ==
    \/ Len(tb.starts) # Len(tb.vals)
    \/ tb.starts_class # "H5T_INTEGER"
    \/ Len(tb.starts) >= 1 /\ tb.starts[1] # 0
    \/ \E i \in 2..Len(tb.starts) : tb.starts[i] <= tb.starts[i - 1]
    \/ Len(tb.starts) >= 1 /\ tb.starts[Len(tb.starts)] >= n

\* C13: when an RSE column read by the scan has run_starts and values of
\* different lengths, a non-integer run_starts type, run_starts[0] # 0, an
\* entry not strictly greater than its predecessor, or a last entry >=
\* num_rows, Init fails with an error and no slice is ever handed out.
C13_InvalidTableFailsInit ==
    /\ init_status = "none" => handed = <<>>
    /\ (init_status # "none"
        /\ \E c \in 1..Len(file_tables) : TableInvalid(file_tables[c], num_rows)) =>
            /\ init_status = "IOException"
            /\ handed = <<>>
            /\ \A w \in Workers : pc[w] = "idle"

\* The second column's table breaks only the rule on the last entry.
C13_Witness ==
    /\ init_status = "IOException"
    /\ Len(file_tables[2].starts) = 2
    /\ file_tables[2].starts = <<0, num_rows>>
    /\ Len(file_tables[2].vals) = 2
    /\ file_tables[2].starts_class = "H5T_INTEGER"
    /\ ~TableInvalid(file_tables[1], num_rows)

\* C20: when a storage read issued by Init returns a negative status, Init
\* fails with an IO error and nothing read by that call is kept in the run
\* table.
C20_FailedReadFailsInit ==
    (/\ init_fault.read # "none"
     /\ Len(file_tables[init_fault.col].vals) >= 1
     /\ init_status # "none") =>
        /\ init_status = "IOException"
        /\ column_states = <<>>


\* ---- predicate claimer: what the host engine's expressions mean
ColumnValues == 9..12

\* A row of the scanned table joined with a row of the other table.
Rows == [cols : [1..2 -> ColumnValues], other : RSEValues]

OperandValue(o, row) ==
    IF o.expression_class = "BOUND_CONSTANT"
    THEN o.value
    ELSE IF o.table_index = table_index
    THEN row.cols[column_ids[o.column_index]]
    ELSE row.other

HostCompare(type, a, b) ==
    CASE type = "COMPARE_EQUAL" -> a = b
      [] type = "COMPARE_NOTEQUAL" -> a # b
      [] type = "COMPARE_LESSTHAN" -> a < b
      [] type = "COMPARE_LESSTHANOREQUALTO" -> a <= b
      [] type = "COMPARE_GREATERTHAN" -> a > b
      [] type = "COMPARE_GREATERTHANOREQUALTO" -> a >= b
      [] type = "COMPARE_NOT_DISTINCT_FROM" -> a = b

RECURSIVE ExprHolds(_, _)
ExprHolds(e, row) ==
    CASE e.expression_class = "BOUND_COMPARISON" ->
            HostCompare(e.type, OperandValue(e.left, row), OperandValue(e.right, row))
      [] e.expression_class = "BOUND_BETWEEN" ->
            LET v == OperandValue(e.input, row)
                lo == OperandValue(e.lower, row)
                hi == OperandValue(e.upper, row)
            IN  /\ IF e.lower_inclusive THEN v >= lo ELSE v > lo
                /\ IF e.upper_inclusive THEN v <= hi ELSE v < hi
      [] e.expression_class = "BOUND_CONJUNCTION" ->
            IF e.type = "CONJUNCTION_AND"
            THEN \A k \in 1..Len(e.children) : ExprHolds(e.children[k], row)
            ELSE \E k \in 1..Len(e.children) : ExprHolds(e.children[k], row)
      [] e.expression_class = "BOUND_OPERATOR" -> ~ExprHolds(e.children[1], row)

\* The planner keeps a row for a claimed filter when the row's value passes it.
ClaimHolds(f, row) == EvaluateComparison(row.cols[f.column_index], f.comparison, f.constant)

\* A reference to a column of this scan that Bind made an RSE column.
IsRSEColumn(o) ==
    /\ o.expression_class = "BOUND_COLUMN_REF"
    /\ o.table_index = table_index
    /\ columns[column_ids[o.column_index]] = "rse"

IsConstant(o) == o.expression_class = "BOUND_CONSTANT"

\* col op const or const op col, col an RSE column, op one of = < <= > >=.
ClaimableComparison(e) ==
    /\ e.type \in {"COMPARE_EQUAL", "COMPARE_LESSTHAN", "COMPARE_LESSTHANOREQUALTO",
                   "COMPARE_GREATERTHAN", "COMPARE_GREATERTHANOREQUALTO"}
    /\ \/ IsRSEColumn(e.left) /\ IsConstant(e.right)
       \/ IsConstant(e.left) /\ IsRSEColumn(e.right)

\* The operator with the constant moved to the right.
Mirrored(type) ==
    CASE type = "COMPARE_EQUAL" -> "COMPARE_EQUAL"
      [] type = "COMPARE_LESSTHAN" -> "COMPARE_GREATERTHAN"
      [] type = "COMPARE_GREATERTHAN" -> "COMPARE_LESSTHAN"
      [] type = "COMPARE_LESSTHANOREQUALTO" -> "COMPARE_GREATERTHANOREQUALTO"
      [] type = "COMPARE_GREATERTHANOREQUALTO" -> "COMPARE_LESSTHANOREQUALTO"

FirstCallOnOne == pushdown_calls = 1 /\ Len(filters) = 1

\* C14: a single comparison offered to the callback is claimed exactly when it
\* is `col op const` or `const op col` with col an RSE column and op one of
\* = < <= > >=; the claim names that column and that constant, a constant on
\* the left is stored with the mirrored operator, and the stored comparison
\* holds for exactly the column values for which the offered one holds.  All
\* other comparisons (regular columns, <>, IS NOT DISTINCT FROM) claim nothing,
\* and every claimed filter's column index is an RSE column.
C14_ClaimsComparisons ==
    /\ \A k \in 1..Len(claimed_filters) :
        /\ claimed_filters[k].column_index \in DOMAIN columns
        /\ columns[claimed_filters[k].column_index] = "rse"
    /\ (FirstCallOnOne /\ filters[1].expression_class = "BOUND_COMPARISON") =>
        LET e == filters[1]
            on_left == IsConstant(e.left)
            col == IF on_left THEN e.right ELSE e.left
            const == IF on_left THEN e.left ELSE e.right
        IN  IF ClaimableComparison(e)
            THEN /\ Len(claimed_filters) = 1
                 /\ claimed_filters[1].column_index = column_ids[col.column_index]
                 /\ claimed_filters[1].constant = const.value
                 /\ claimed_filters[1].comparison =
                        IF on_left THEN Mirrored(e.type) ELSE e.type
                 /\ \A row \in Rows :
                        ClaimHolds(claimed_filters[1], row) <=> ExprHolds(e, row)
            ELSE claimed_filters = <<>>

\* `10 < col` on an RSE column was claimed as `col > 10`.
C14_Witness ==
    /\ FirstCallOnOne
    /\ filters[1].expression_class = "BOUND_COMPARISON"
    /\ filters[1].type = "COMPARE_LESSTHAN"
    /\ IsConstant(filters[1].left)
    /\ IsRSEColumn(filters[1].right)
    /\ claimed_filters =
        <<ClaimedFilter(column_ids[filters[1].right.column_index],
                        "COMPARE_GREATERTHAN", 10)>>

\* col BETWEEN lo AND hi on an RSE column with constant bounds.
ClaimableBetween(e) ==
    /\ e.expression_class = "BOUND_BETWEEN"
    /\ IsRSEColumn(e.input)
    /\ IsConstant(e.lower)
    /\ IsConstant(e.upper)

\* C15: `col BETWEEN lo AND hi` on an RSE column with constant bounds is
\* claimed as exactly the two filters col >= lo, col <= hi, in that order, and
\* every row that satisfies the BETWEEN passes both claimed filters.
C15_BetweenClaimedAsTwo ==
    (FirstCallOnOne /\ ClaimableBetween(filters[1])) =>
        LET e == filters[1]
            c == column_ids[e.input.column_index]
        IN  /\ claimed_filters =
                <<ClaimedFilter(c, "COMPARE_GREATERTHANOREQUALTO", e.lower.value),
                  ClaimedFilter(c, "COMPARE_LESSTHANOREQUALTO", e.upper.value)>>
            /\ \A row \in Rows :
                ExprHolds(e, row) =>
                    \A k \in 1..Len(claimed_filters) : ClaimHolds(claimed_filters[k], row)

\* A BETWEEN with both bounds inclusive and a row on its lower bound.
C15_Witness ==
    /\ FirstCallOnOne
    /\ ClaimableBetween(filters[1])
    /\ filters[1].lower_inclusive
    /\ filters[1].upper_inclusive
    /\ filters[1].lower.value = 10
    /\ filters[1].upper.value = 11
    /\ Len(claimed_filters) = 2

\* What the claimer takes from one expression offered on its own.
ClaimsOf(e) == TryClaimRSEFilter(e, column_ids, RSEColumnIndices(columns)).claimed

IsTwoChildAnd(e) ==
    /\ e.expression_class = "BOUND_CONJUNCTION"
    /\ e.type = "CONJUNCTION_AND"
    /\ Len(e.children) = 2

\* C16: a two-child AND contributes the claims of its first child followed by
\* the claims of its second child, whether or not the other child is
\* claimable; an expression that is neither a comparison, a BETWEEN nor a
\* two-child AND contributes nothing; and every row that satisfies all the
\* offered filters passes every claimed filter.
C16_ConjunctionClaims ==
    /\ (FirstCallOnOne /\ IsTwoChildAnd(filters[1])) =>
        claimed_filters = ClaimsOf(filters[1].children[1]) \o ClaimsOf(filters[1].children[2])
    /\ (/\ FirstCallOnOne
        /\ filters[1].expression_class \notin {"BOUND_COMPARISON", "BOUND_BETWEEN"}
        /\ ~IsTwoChildAnd(filters[1])) =>
        claimed_filters = <<>>
    /\ pushdown_calls >= 1 =>
        \A row \in Rows :
            (\A i \in 1..Len(filters) : ExprHolds(filters[i], row)) =>
                \A k \in 1..Len(claimed_filters) : ClaimHolds(claimed_filters[k], row)

\* An AND of a claimable comparison and one that is not claimable.
C16_Witness ==
    /\ FirstCallOnOne
    /\ IsTwoChildAnd(filters[1])
    /\ ClaimsOf(filters[1].children[1]) = <<>>
    /\ ClaimsOf(filters[1].children[2]) # <<>>
    /\ claimed_filters = ClaimsOf(filters[1].children[2])

IsPrefix(a, b) == Len(a) <= Len(b) /\ SubSeq(b, 1, Len(a)) = a

\* C17: a call of the pushdown callback leaves the host engine's filter list
\* as it was, keeps every claim already made and only appends to the claimed
\* filters; nothing else of the bind record or the scan changes.
C17_PushdownFrame ==
    [][/\ filters' = filters
       /\ IsPrefix(claimed_filters, claimed_filters')
       /\ UNCHANGED <<columns, column_ids, num_rows, file_tables, init_fault,
                      column_states, init_status, bindVars>>]_vars

\* A second call appended to the claims of the first.
C17_Witness ==
    /\ pushdown_calls = 2
    /\ Len(filters) = 2
    /\ Len(claimed_filters) = 4


\* ---- Bind
IsPathArg(arg) == arg.kind = "path"

RegularDims(args) == {args[i].dim0 : i \in {j \in 1..Len(args) : IsPathArg(args[j])}}

Reorderings(n) == {p \in [1..n -> 1..n] : \A i, j \in 1..n : p[i] = p[j] => i = j}

\* C18: a successful Bind sets num_rows to the least first dimension among the
\* regular column arguments; every reordering of the arguments and the
\* arguments without the RSE structs give the same num_rows; and Bind never
\* succeeds on an argument list without a regular column.
C18_NumRowsIsMinFirstDim ==
    /\ bind_status = "ok" =>
        /\ num_rows \in RegularDims(inputs)
        /\ \A d \in RegularDims(inputs) : num_rows <= d
        /\ \A p \in Reorderings(Len(inputs)) :
            LET reordered == BindResult(file_is_valid, [i \in 1..Len(inputs) |-> inputs[p[i]]])
            IN  reordered.status = "ok" /\ reordered.num_rows = num_rows
        /\ LET regulars == BindResult(file_is_valid, SelectSeq(inputs, IsPathArg))
           IN  regulars.status = "ok" /\ regulars.num_rows = num_rows
    /\ (bind_status # "none" /\ RegularDims(inputs) = {}) => bind_status # "ok"

\* Three arguments: a longer regular column, an RSE column, the shortest
\* regular column last.
C18_Witness ==
    /\ bind_status = "ok"
    /\ Len(inputs) = 3
    /\ inputs[1].kind = "path" /\ inputs[1].dim0 = 2
    /\ inputs[2].kind = "struct"
    /\ inputs[3].kind = "path" /\ inputs[3].dim0 = 1
    /\ num_rows = 1

BadDataset(arg) ==
    IF IsPathArg(arg)
    THEN \/ ~arg.exists
         \/ arg.ndims = 0
         \/ arg.ndims > 4
         \/ arg.class \notin {"H5T_INTEGER", "H5T_FLOAT", "H5T_STRING"}
    ELSE \/ ~arg.starts_exists
         \/ ~arg.values_exists
         \/ arg.values_class \notin {"H5T_INTEGER", "H5T_FLOAT", "H5T_STRING"}

\* The argument is an RSE struct Bind rejects before it opens any dataset.
BadStruct(arg) == ~IsPathArg(arg) /\ (arg.children # 3 \/ arg.encoding # "rse")

BadArg(arg) == BadStruct(arg) \/ BadDataset(arg)

ScanDrained ==
    /\ \E w \in Workers : pc[w] = "done"
    /\ \A w \in Workers : ~InFlight(w)

\* The end of the last valid row range (0 for the empty list).
LastRangeEnd ==
    IF valid_row_ranges = <<>> THEN 0
    ELSE valid_row_ranges[Len(valid_row_ranges)].end_row

\* The claim as stated: once NextSlice has returned None and every worker has
\* reported its last slice, position and position_done equal num_rows.
C21_DoneAtNumRows ==
    ScanDrained => (position = num_rows /\ position_done = num_rows)

\* C21 (amended): once NextSlice has returned None and every worker has
\* reported its last slice, position and position_done both equal the end of
\* the last valid row range (0 for an empty list) and no completion is left
\* parked; they equal num_rows exactly when that range ends at num_rows, as
\* in the unfiltered scan.
C21_DoneAtLastRangeEnd ==
    ScanDrained =>
        /\ position = LastRangeEnd
        /\ position_done = LastRangeEnd
        /\ completed_ranges = {}

\* A filtered scan that ends before num_rows, drained after out-of-order
\* completion reports.
C21_Witness ==
    /\ ScanDrained
    /\ Len(valid_row_ranges) = 2
    /\ LastRangeEnd < num_rows
    /\ position_done = LastRangeEnd
    /\ Len(handed) >= 3

\* ---- boundary: a table without rows
\* C22: with num_rows = 0, run tables that break no rule and no failing read,
\* Init succeeds and its ranges hold no row; the first H5ReadScan call of
\* every worker returns without a slice, no worker enters a column scan, no
\* chunk is loaded, and position and position_done stay 0.
C22_EmptyTableScan ==
    (/\ num_rows = 0
     /\ init_fault = NoFault
     /\ \A c \in 1..Len(file_tables) : ~TableInvalid(file_tables[c], num_rows)) =>
        /\ init_status \in {"none", "ok"}
        /\ init_status = "ok" => RowsOf(valid_row_ranges) = {}
        /\ handed = <<>>
        /\ position = 0
        /\ position_done = 0
        /\ \A w \in Workers : pc[w] \in {"idle", "done"}
        /\ \A c \in Chunks : end_row[c] = 0 /\ cache[c].rows = 0
        /\ ~someone_is_fetching

\* Init succeeded on the empty table and both workers were told "no data".
C22_Witness ==
    /\ num_rows = 0
    /\ init_status = "ok"
    /\ \A w \in Workers : pc[w] = "done"
    /\ position = 0

\* ---- always-true filters
\* The slices a scan hands out from position pos on, one GetNextDataRange
\* call after the other.
RECURSIVE SlicesFrom(_, _)
SlicesFrom(ranges, pos) ==
    LET range == NextRangeFrom(ranges, pos)
    IN  IF range.has_data
        THEN <<[p |-> range.position, n |-> range.to_read]>>
             \o SlicesFrom(ranges, pos + range.to_read)
        ELSE <<>>

\* Every run of every filtered column passes all filters claimed on it.
FiltersAlwaysTrue ==
    \A f \in {claimed_filters[k] : k \in 1..Len(claimed_filters)} :
        \A i \in 1..Len(column_states[f.column_index].values) :
            CmpHolds(column_states[f.column_index].values[i], f.comparison, f.constant)

\* C23: when every run of an RSE column satisfies all filters claimed on it,
\* the valid row ranges Init computes cover exactly the rows [0, num_rows) of
\* the unfiltered scan, and the slices handed out are those of the unfiltered
\* scan.
C23_AlwaysTrueFilterKeepsAll ==
    (init_status = "ok" /\ claimed_filters # <<>> /\ FiltersAlwaysTrue) =>
        /\ RowsOf(valid_row_ranges) = 0..(num_rows - 1)
        /\ SlicesFrom(valid_row_ranges, 0) = SlicesFrom(<<RowRange(0, num_rows)>>, 0)

\* ---- parallel determinism
\* The slices of a scan as a function of the range list alone: from pos, the
\* next slice runs to the nearest range end past pos or VECTOR_SIZE rows on,
\* whichever comes first.
RECURSIVE SlicesOfRanges(_, _)
SlicesOfRanges(ranges, pos) ==
    LET ends == {ranges[i].end_row : i \in 1..Len(ranges)}
        past == {e \in ends : e > pos}
        cut == CHOOSE e \in past : \A x \in past : e <= x
        len == Min(VECTOR_SIZE, cut - pos)
    IN  IF past = {} THEN <<>>
        ELSE <<[p |-> pos, n |-> len]>> \o SlicesOfRanges(ranges, pos + len)

HandedSlices == [i \in 1..Len(handed) |-> [p |-> handed[i].p, n |-> handed[i].n]]

\* C24: whatever the interleaving of the workers' GetNextDataRange calls and
\* completion reports, the slices handed out are an initial part of the one
\* list determined by valid_row_ranges; once a worker has been told "no more
\* data" they are that whole list, and once the scan has drained exactly
\* those slices were delivered.
C24_SlicesDeterminedByRanges ==
    LET all == SlicesOfRanges(valid_row_ranges, 0)
    IN  /\ Len(handed) <= Len(all)
        /\ HandedSlices = SubSeq(all, 1, Len(handed))
        /\ (\E w \in Workers : pc[w] = "done") => HandedSlices = all
        /\ ScanDrained => reported = {all[i].p : i \in 1..Len(all)}

\* Both workers took slices, one finished its second slice before the other
\* finished its first, and the scan drained.
C24_Witness ==
    /\ ScanDrained
    /\ Len(handed) >= 3
    /\ Len(valid_row_ranges) = 2
    /\ \A w \in Workers : pc[w] = "done"

\* ---- projection pushdown
\* What output vector g holds for the slice when every column is projected.
FullProjectionOutput(p, n) ==
    LET all == ColumnsToScan(<<>>, columns)
    IN  FillOutput(all, columns, InitColumnStates(all, columns), p, n)

\* C25: after Init there is exactly one column state per projected column, in
\* projection order; global_to_local sends columns_to_scan[i] back to i; only
\* the projected columns were opened; and every output vector i of a scan
\* holds the values of bind column columns_to_scan[i], the same values that
\* column gets when all columns are projected.
C25_ProjectionPushdown ==
    init_status = "ok" =>
        /\ columns_to_scan = IF column_ids = <<>> THEN <<1, 2, 3>> ELSE column_ids
        /\ Len(column_states) = Len(columns_to_scan)
        /\ \A i \in 1..Len(columns_to_scan) :
            /\ column_states[i].dataset = columns_to_scan[i]
            /\ column_states[i].kind = columns[columns_to_scan[i]]
            /\ global_to_local[columns_to_scan[i]] = i
        /\ opened = {columns_to_scan[i] : i \in 1..Len(columns_to_scan)}
        /\ output # <<>> =>
            /\ Len(output) = Len(columns_to_scan)
            /\ \A i \in 1..Len(output) :
                /\ \A k \in 0..(slice[1].n - 1) :
                    output[i][k] = ColumnData(columns_to_scan[i], slice[1].p + k)
                /\ output[i] = FullProjectionOutput(slice[1].p, slice[1].n)[columns_to_scan[i]]

\* Columns 3 and 1 are projected in that order, column 2 stays closed, and the
\* second slice was delivered.
C25_Witness ==
    /\ init_status = "ok"
    /\ column_ids = <<3, 1>>
    /\ opened = {1, 3}
    /\ output # <<>>
    /\ slice[1].p = VECTOR_SIZE

\* ---- the prefetch cache: coverage, gate release, termination, refill
\* Row r lies in the range [end_row - chunk_size, end_row) of chunk c.
RowInChunk(r, c) == r < end_row[c] /\ r + chunk_size >= end_row[c]

\* The coverage test passed for w's slice and its copy loop has not finished.
Copying(w) == pc[w] \in {"cp_load", "cp_copy"}

\* C26: whenever the coverage test (position + length <= larger end_row) has
\* passed for a slice in flight, every row of the slice lies in the covered
\* range of one of the two chunks, from then until the copy loop finishes.
C26_CoveredSliceInsideChunks ==
    \A w \in Workers : Copying(w) =>
        \A r \in SliceRows(slice[w]) : \E c \in Chunks : RowInChunk(r, c)

\* A slice that straddles both chunks is being copied from the second one
\* while the other worker holds the gate and tests the chunks for refill.
C26_Witness ==
    \E w \in Workers : \E l \in Workers :
        /\ pc[w] = "cp_copy"
        /\ cpk[w] = 2
        /\ \E r \in SliceRows(slice[w]) : ~RowInChunk(r, CopyChunk(w))
        /\ pc[l] = "ld_check"
        /\ position_done > 0

\* C27: the loader gate is released on every exit path, a failed storage
\* read included: someone_is_fetching is never true while no task is loading.
C27_GateReleasedOnEveryExit ==
    someone_is_fetching => \E w \in Workers : pc[w] \in LoadingPcs

\* The pcs of the cached reader loop, the refresh it calls included.
ReaderLoopPcs ==
    {"load1", "load2", "chk_fetch", "wait", "refresh", "ld_check", "ld_read", "ld_publish"}

\* C28: with a single worker and any positive chunk_size, the cached reader
\* loop terminates for every slice.
C28_ReaderLoopTerminates ==
    (pc[1] \in ReaderLoopPcs) ~> (pc[1] \notin ReaderLoopPcs)

\* The first row at or after h that belongs to a valid range (num_rows when
\* there is none).
FirstValidRowFrom(h) ==
    LET rows == {r \in RowsOf(valid_row_ranges) : r >= h}
    IN  IF rows = {} THEN num_rows ELSE CHOOSE r \in rows : \A q \in rows : r <= q

\* C29: with H the highest end_row, a refill reads from the first row >= H
\* that belongs to a valid range, at most chunk_size rows, none at or past
\* num_rows; without a valid range past H nothing is read.
C29_RefillStartsAtValidRow ==
    \A w \in Workers :
        /\ pc[w] \in {"ld_read", "ld_publish"} =>
            /\ \E r \in RowsOf(valid_row_ranges) : r >= max_end_row[w]
            /\ next_pos[w] = FirstValidRowFrom(max_end_row[w])
        /\ pc[w] = "ld_publish" =>
            /\ cache[cidx[w]].base = FirstValidRowFrom(max_end_row[w])
            /\ cache[cidx[w]].rows <= chunk_size
            /\ cache[cidx[w]].base + cache[cidx[w]].rows <= num_rows

\* Both end_rows are multiples of chunk_size and no end_row decreases.
EndRowsMultiplesMonotone ==
    /\ [](\A c \in Chunks : end_row[c] % chunk_size = 0)
    /\ [][\A c \in Chunks : end_row'[c] >= end_row[c]]_vars

EndRowDistance == Max(end_row[0], end_row[1]) - Min(end_row[0], end_row[1])

\* C30 as stated: the two chunks are both empty or their end_rows differ by
\* exactly chunk_size; end_rows are multiples of chunk_size and never decrease.
C30_ChunksAdjacent ==
    /\ EndRowsMultiplesMonotone
    /\ []((end_row[0] = 0 /\ end_row[1] = 0) \/ EndRowDistance = chunk_size)

\* C30: the two chunks are both empty, or their end_rows are distinct
\* multiples of chunk_size that differ by chunk_size or by twice chunk_size;
\* no end_row decreases.
C30_ChunksWithinTwoChunkSizes ==
    /\ EndRowsMultiplesMonotone
    /\ []((end_row[0] = 0 /\ end_row[1] = 0)
            \/ EndRowDistance \in {chunk_size, 2 * chunk_size})

\* Both chunks were finished and chunk 0, which held the higher end_row, was
\* refilled first.
C30_Witness ==
    /\ end_row[1] > 0
    /\ end_row[0] = end_row[1] + 2 * chunk_size

\* ---- covered slices, parked completions
\* The pcs of a worker that reads end_rows or copies, without gate or wait.
CopyPathPcs == {"load1", "load2", "cp_load", "cp_copy", "report"}

\* What worker w finds, or is about to find, when it examines the cache: at
\* load1 the published end_rows, at load2 the end1 it read and the other
\* chunk's published end_row.
FoundCovered(w) ==
    \/ /\ pc[w] = "load1"
       /\ slice[w].p + slice[w].n <= Max(end_row[0], end_row[1])
    \/ /\ pc[w] = "load2"
       /\ slice[w].p + slice[w].n <= Max(end1[w], end_row[1 - chunk1[w]])
    \/ pc[w] \in {"cp_load", "cp_copy"}

\* C31: a worker that finds its slice covered when it examines the cache goes
\* on to copy its rows: it never reaches the compare-exchange on the gate nor
\* the wait on end_row, whatever the other task does, a loading task
\* included; and the gate flag changes only by a task at the compare-exchange
\* or at the end of its load.
C31_CoveredSliceCopiesDirectly ==
    [][/\ \A w \in Workers : FoundCovered(w) => pc'[w] \in CopyPathPcs
       /\ someone_is_fetching' # someone_is_fetching =>
            \E l \in Workers : pc[l] \in {"refresh", "ld_check"} /\ pc'[l] # pc[l]]_vars

\* A worker found its slice covered and copies while the other worker is in
\* the middle of a load.
C31_Witness ==
    \E w \in Workers : \E l \in Workers :
        /\ pc[w] = "cp_copy"
        /\ pc[l] = "ld_publish"
        /\ someone_is_fetching
        /\ slice[w].p > 0

\* Every slice handed out has reported its completion.
AllReported == \A w \in Workers : ~InFlight(w)

\* C32: out-of-order completions are never lost: every entry parked in
\* completed_ranges starts strictly above position_done, and once every
\* handed-out slice has reported, completed_ranges is empty and position_done
\* equals position, also when the valid row ranges have gaps between them.
C32_ParkedCompletionsFolded ==
    /\ \A x \in completed_ranges : x[1] > position_done
    /\ AllReported => (completed_ranges = {} /\ position_done = position)

\* Both workers have reported, the later slice first, over two ranges with a
\* gap between them.
C32_Witness ==
    /\ AllReported
    /\ Len(valid_row_ranges) = 2
    /\ valid_row_ranges[1].end_row < valid_row_ranges[2].start_row
    /\ Len(handed) >= 2
    /\ position_done = position
    /\ \E i \in 1..Len(handed) : handed[i].p > 0 /\ handed[i].p < position_done

\* ---- RSE run tables
\* The run index ScanRSEColumn computes for row pos lies inside the table.
RunIndexInside(st, pos) ==
    LET current_run == UpperBound(st.run_starts, pos) - 1
    IN  current_run >= 0 /\ current_run < Len(st.values)

\* C33: after a successful Init with num_rows > 0, every RSE column has at
\* least one run, run_starts[0] = 0, strictly ascending run_starts, the last
\* run start below num_rows and as many values as run_starts, so every row of
\* [0, num_rows) belongs to exactly one run and ScanRSEColumn indexes inside
\* the run table.
C33_RunTablesCoverRows ==
    (init_status = "ok" /\ num_rows > 0) =>
        \A c \in 1..Len(column_states) :
            LET st == column_states[c]
                runs == Len(st.run_starts)
            IN  /\ runs >= 1
                /\ st.run_starts[1] = 0
                /\ \A i \in 2..runs : st.run_starts[i] > st.run_starts[i - 1]
                /\ st.run_starts[runs] < num_rows
                /\ Len(st.values) = runs
                /\ \A pos \in 0..(num_rows - 1) : RunIndexInside(st, pos)

\* Every row of the last materialized slice belongs to one run.
SliceInOneRun ==
    \A r \in rse_last.p..(rse_last.p + rse_last.n - 1) : RunOf(r) = RunOf(rse_last.p)

\* C34: ScanRSEColumn emits a constant vector holding the run's value exactly
\* when every row of the slice [p, p+n) belongs to the same run, the last run
\* ending at num_rows, and a flat vector of n entries otherwise.
C34_ConstantIffOneRun ==
    rse_last.vec.type # "NONE" =>
        /\ rse_last.vec.type = "CONSTANT_VECTOR" <=> SliceInOneRun
        /\ SliceInOneRun => rse_last.vec.data = <<rse_values[RunOf(rse_last.p)]>>
        /\ ~SliceInOneRun =>
            /\ rse_last.vec.type = "FLAT_VECTOR"
            /\ Len(rse_last.vec.data) = rse_last.n

\* A slice that ends at num_rows inside the last of several runs came out
\* constant, right after a slice over two runs came out flat.
C34_Witness ==
    /\ rse_last.vec.type = "CONSTANT_VECTOR"
    /\ Len(run_starts) >= 2
    /\ rse_last.n >= 2
    /\ rse_last.p + rse_last.n = rse_num_rows
    /\ RunOf(rse_last.p) = Len(run_starts)
    /\ rse_prev.vec.type = "FLAT_VECTOR"

\* ---- the range planner
\* col_ranges of column col for the claimed filters of the query.
ColRanges(col) ==
    ColumnRanges(column_states[col], FiltersByColumn(claimed_filters, col), num_rows)

\* The run of column col with index r satisfies every filter claimed on col.
RunSatisfies(col, r) ==
    \A k \in 1..Len(claimed_filters) :
        claimed_filters[k].column_index = col =>
            CmpHolds(column_states[col].values[r], claimed_filters[k].comparison,
                     claimed_filters[k].constant)

\* C35: the range list the planner builds for a filtered column is maximal:
\* its ranges are non-empty, cover the rows of the satisfying runs, and no
\* range ends at the row where the next one starts; a range still open after
\* the last run is closed at num_rows.  Values 'a','b' at run_starts [0,2]
\* with num_rows 5 and filter = 'b' give [{2,5}].
C35_ColumnRangesMaximal ==
    /\ init_status = "ok" =>
        \A col \in FilteredColumns(claimed_filters) :
            LET cr == ColRanges(col)
                runs == Len(column_states[col].run_starts)
            IN  /\ \A i \in 1..Len(cr) : cr[i].start_row < cr[i].end_row
                /\ \A i \in 1..(Len(cr) - 1) : cr[i].end_row < cr[i + 1].start_row
                /\ RowsOf(cr) = {i \in 0..(num_rows - 1) : RowSatisfies(col, i)}
                /\ (runs > 0 /\ RunSatisfies(col, runs)) =>
                    (cr # <<>> /\ cr[Len(cr)].end_row = num_rows)
                /\ FilteredColumns(claimed_filters) = {col} => valid_row_ranges = cr
    /\ ColumnRanges([run_starts |-> <<0, 2>>, values |-> <<10, 11>>],
                    <<[column_index |-> 1, comparison |-> "COMPARE_EQUAL", constant |-> 11]>>,
                    5) = <<RowRange(2, 5)>>

\* Two consecutive satisfying runs after a failing one were merged into one
\* range, which was closed at num_rows.
C35_Witness ==
    /\ init_status = "ok"
    /\ num_rows = 3
    /\ FilteredColumns(claimed_filters) = {1}
    /\ column_states[1].run_starts = <<0, 1, 2>>
    /\ ~RunSatisfies(1, 1) /\ RunSatisfies(1, 2) /\ RunSatisfies(1, 3)
    /\ valid_row_ranges = <<RowRange(1, 3)>>

\* ---- intersection of range lists
\* C36: for sorted, disjoint lists a and b of non-empty ranges,
\* IntersectRowRanges(a, b) covers exactly the rows that lie in both, is
\* sorted, disjoint and without empty ranges, equals IntersectRowRanges(b, a),
\* and IntersectRowRanges(a, a) = a; so the planner's list is the same for
\* both orders of two filtered columns.
C36_IntersectionExactSymmetric ==
    /\ \A k \in 1..Len(intersections) :
        LET call == intersections[k]
        IN  /\ RowsOf(call.result) = RowsOf(call.a) \cap RowsOf(call.b)
            /\ SortedDisjoint(call.result)
            /\ call.a = call.b => call.result = call.a
            /\ \A m \in 1..Len(intersections) :
                (intersections[m].a = call.b /\ intersections[m].b = call.a) =>
                    intersections[m].result = call.result
    /\ Len(intersections) = 5 => intersections[4].result = intersections[5].result

\* Both orders were computed for two different two-range lists that share a
\* range end and overlap in two places.
C36_Witness ==
    /\ Len(intersections) = 5
    /\ Len(ranges_a) = 2 /\ Len(ranges_b) = 2
    /\ ranges_a # ranges_b
    /\ ranges_a[1].end_row = ranges_b[1].end_row
    /\ Len(intersections[1].result) = 2
    /\ intersections[1].result # ranges_a
    /\ intersections[2].result = intersections[1].result

\* ---- error suppression scopes
\* C37: when an H5ErrorSuppressor scope ends, by reaching its end or by an
\* exception thrown inside it, the library's error handler is again the one
\* that was installed when the scope was entered, for nested scopes too.
C37_HandlerRestored ==
    /\ [](last_ended.site # "none" => last_ended.left_with = last_ended.installed)
    /\ [][Len(suppressors') < Len(suppressors) =>
            error_handler' = suppressors[Len(suppressors)].installed]_vars

\* An exception thrown in the RSE open scope, nested in another scope, has
\* left both scopes and the host's handler is installed again.
C37_Witness ==
    /\ last_ended.by = "exception"
    /\ last_ended.site # "H5ReadInit rse"
    /\ last_ended.installed = "host_silent"
    /\ error_handler = "host_silent"
    /\ suppressors = <<>>
    /\ ~unwinding

\* ---- handle ownership
\* Bind is over: the bind record was dropped, or Bind failed.
BindOver == bind_at.pc \in {"dropped", "failed"}

\* C38: every handle acquired during Bind (file, datasets, dataspaces and the
\* datatype handles the library returns) is closed exactly once by the time
\* the bind record is dropped, on success and on every failure path: no
\* handle is ever closed twice and none remains open.
C38_HandlesClosedExactlyOnce ==
    /\ \A id \in 1..Len(h5_handles) : h5_handles[id].closes <= 1
    /\ BindOver => \A id \in 1..Len(h5_handles) : h5_handles[id].closes = 1

=============================================================================
